---------------------------- MODULE Spec2Model ----------------------------
(***************************************************************************)
(* A model of Mesh2Distance (mesh.go): OBJ ingestion (LoadOBJ), the        *)
(* triangle-list spatial index (createTriangleLists), the signed           *)
(* point-to-triangle distance (distance) and the expanding-shell nearest   *)
(* surface query (distanceUsingList), the winding test (sameWindingOrder)  *)
(* and the adjacency pass over the triangles (fixTriangle, mesh_fix.go),   *)
(* the grid sizing (calculateGridSize) and the field evaluation and        *)
(* quantization (calculate).                                               *)
(*                                                                         *)
(* float64 values are modelled by exact rationals <<n, d>> with d > 0 and  *)
(* gcd(n, d) = 1.  The two sentinels posBigfloat64 / negBigfloat64         *)
(* (+-MaxFloat64) are the pairs <<1, 0>> / <<-1, 0>>, ordered above/below  *)
(* every other value.  A value produced by math.Copysign(math.Sqrt(q), s)  *)
(* is the record [sgn |-> s, sq |-> q]: its sign and its squared           *)
(* magnitude, so that |x| < |y| is sq(x) < sq(y).                          *)
(***************************************************************************)
EXTENDS Integers, Sequences, FiniteSets, TLC

VARIABLES
    \* ---- LoadOBJ
    pc,             \* "open" | "scan" | "done"
    Vertices,       \* model.Vertices: sequence of Vec3
    Triangles,      \* model.Triangles: sequence of <<i0, i1, i2>> (uint32)
    Min, Max,       \* model.Min, model.Max
    edgeCount,      \* map[edgeKey]int, as a function on the keys present
    err,            \* the returned error ("nil" when none)
    mesh,           \* the returned *Mesh: "nil" or "model"
    lines,          \* the records the scanner has delivered so far
    \* ---- distance
    dpc,            \* "idle" | "args" | "d0" | "d1"
    dp, da, db, dc, \* the point and the triangle
    d0, d1,         \* distance(p,a,b,c) and distance(p,b,a,c)
    \* ---- createTriangleLists / distanceUsingList
    gpc,            \* "idle" | "grid" | "ready" | "scan" | "returned"
    gmesh,          \* the mesh: [Vertices, Triangles]
    dims,           \* <<width, height, depth>>
    gridMin, gridMax,
    triangleLists,  \* [0 .. w*h*d-1 -> Seq(triangle index)]; <<>> is nil
    cell,           \* <<ix, iy, iz>>
    layer, visitedTriangles, foundTriangles, minDistance,
    result,         \* what distanceUsingList returned ("none" before it returns)
    \* ---- sameWindingOrder
    wpc,            \* "idle" | "args" | "done"
    triangleA, triangleB, shared,
    sameWinding,    \* the returned bool
    \* ---- calculate: the parallel evaluation of the field (it uses gmesh,
    \* dims, gridMin, gridMax and triangleLists above)
    cpc,            \* "idle" | "run" | "done" | "panic"
    data,           \* data[i], i in 0 .. width*height*depth-1
    writes,         \* per cell: the workers (z) that have written it, in order
    worker,         \* per goroutine z: [at, x, y, minDi, maxDi, previousValue]
    minD, maxD,
    queried,        \* per cell: what mesh.distanceUsingList returns for it
    progress,       \* the progress counter (int32)
    mu,             \* sync.Mutex: the goroutine holding it, -1 when unlocked
    wg,             \* sync.WaitGroup: its counter
    mergeOrder,     \* the goroutines in the order of their locked sections
    \* ---- calculate: the conversion of one sample (rational floats)
    qpc,            \* "idle" | "args" | "done"
    qv,             \* v, a value of data
    qminD, qmaxD,   \* minD, maxD
    qbits,          \* 8 or 16 (convertionOptions16bits)
    outputData,     \* the bytes written for the sample
    \* ---- calculateGridSize (its results are dims, gridMin, gridMax above)
    spc,            \* "idle" | "args" | "done"
    meshMin, meshMax, resolution,
    \* ---- fixTriangle
    fpc,            \* "idle" | "run" | "done"
    meshTriangles,  \* mesh.Triangles
    numCPU,         \* n := runtime.NumCPU()
    fworker,        \* per goroutine i: [lo, hi, k, at]; k is the range index
    fwg,            \* sync.WaitGroup: its counter
    examined,       \* per pass of the outer loop: [index, with]
    disconnected,   \* the triangles a "Disconnected triangles" line was printed for
    inverted        \* the pairs <<b, a>> an "is inverted" line was printed for

loadVars == <<pc, Vertices, Triangles, Min, Max, edgeCount, err, mesh, lines>>
distVars == <<dpc, dp, da, db, dc, d0, d1>>
gridVars == <<gpc, gmesh, dims, gridMin, gridMax, triangleLists, cell,
              layer, visitedTriangles, foundTriangles, minDistance, result>>
windVars == <<wpc, triangleA, triangleB, shared, sameWinding>>
calcVars == <<cpc, data, writes, worker, minD, maxD, queried, progress, mu, wg,
              mergeOrder>>
quantVars == <<qpc, qv, qminD, qmaxD, qbits, outputData>>
sizeVars == <<spc, meshMin, meshMax, resolution>>
fixVars == <<fpc, meshTriangles, numCPU, fworker, fwg, examined, disconnected,
             inverted>>
moreVars == <<windVars, calcVars, quantVars, sizeVars, fixVars>>
vars == <<loadVars, distVars, gridVars, moreVars>>

---------------------------------------------------------------------------
(* Exact rational arithmetic standing for float64.                         *)

AbsInt(i) == IF i < 0 THEN -i ELSE i

RECURSIVE GCD(_, _)
GCD(a, b) == IF b = 0 THEN a ELSE GCD(b, a % b)

Rat(n, d) ==
    IF d = 0 THEN <<0, 0>>
    ELSE LET g == GCD(AbsInt(n), AbsInt(d))
             s == IF d < 0 THEN -1 ELSE 1
         IN <<(s * n) \div g, (s * d) \div g>>

R(i) == <<i, 1>>
RVec(v) == <<R(v[1]), R(v[2]), R(v[3])>>

posBigfloat64 == <<1, 0>>
negBigfloat64 == <<-1, 0>>
IsBig(a) == a[2] = 0

RAdd(a, b) == Rat(a[1] * b[2] + b[1] * a[2], a[2] * b[2])
RSub(a, b) == Rat(a[1] * b[2] - b[1] * a[2], a[2] * b[2])
RMul(a, b) == Rat(a[1] * b[1], a[2] * b[2])
RDiv(a, b) == Rat(a[1] * b[2], a[2] * b[1])
RNeg(a) == <<-a[1], a[2]>>
\* a < b, the sentinels below / above every other value
RLess(a, b) ==
    IF IsBig(a) \/ IsBig(b)
    THEN (IF IsBig(a) THEN a[1] ELSE 0) < (IF IsBig(b) THEN b[1] ELSE 0)
    ELSE a[1] * b[2] < b[1] * a[2]
RLeq(a, b) == ~RLess(b, a)
RFloor(a) == a[1] \div a[2]
RCeil(a) == -((-a[1]) \div a[2])

---------------------------------------------------------------------------
(* vec: the vector library.                                                *)

Add(a, b) == <<RAdd(a[1], b[1]), RAdd(a[2], b[2]), RAdd(a[3], b[3])>>
Sub(a, b) == <<RSub(a[1], b[1]), RSub(a[2], b[2]), RSub(a[3], b[3])>>
Dot(a, b) == RAdd(RAdd(RMul(a[1], b[1]), RMul(a[2], b[2])), RMul(a[3], b[3]))
Mul(a, b) == <<RMul(a[1], b[1]), RMul(a[2], b[2]), RMul(a[3], b[3])>>
Scale(a, b) == <<RMul(a[1], b), RMul(a[2], b), RMul(a[3], b)>>
Dot2(a) == Dot(a, a)
Cross(a, b) ==
    <<RSub(RMul(a[2], b[3]), RMul(a[3], b[2])),
      RSub(RMul(a[3], b[1]), RMul(a[1], b[3])),
      RSub(RMul(a[1], b[2]), RMul(a[2], b[1]))>>
Sign(a) == IF a[1] > 0 THEN 1 ELSE IF a[1] < 0 THEN -1 ELSE 0
Clamp(v, lo, hi) == IF RLess(hi, v) THEN hi ELSE IF RLess(v, lo) THEN lo ELSE v
Saturate(v) == Clamp(v, R(0), R(1))
\* vec.Min / vec.Max on floats
FMin(a, b) == IF RLess(a, b) THEN a ELSE b
FMax(a, b) == IF RLess(b, a) THEN a ELSE b
Min3(a, b, c) == FMin(a, FMin(b, c))
Max3(a, b, c) == FMax(a, FMax(b, c))
\* vec.Min / vec.Max on ints
IMin(a, b) == IF a < b THEN a ELSE b
IMax(a, b) == IF a > b THEN a ELSE b

---------------------------------------------------------------------------
(* distance: signed distance from p to the triangle (a, b, c).             *)

\* math.Copysign(math.Sqrt(q), sign)
CopysignSqrt(q, sign) == [sgn |-> sign, sq |-> q]
\* posBigfloat64 as a value of that form
posBigDistance == [sgn |-> 1, sq |-> posBigfloat64]
\* math.Abs(d) < math.Abs(m)
AbsLess(d, m) == RLess(d.sq, m.sq)
\* d == 0.0 (also true of -0.0)
IsZero(d) == d.sq = R(0)
\* the float -d
Negate(d) == [sgn |-> -d.sgn, sq |-> d.sq]
\* d == e as floats
FEq(d, e) == d.sq = e.sq /\ (d.sgn = e.sgn \/ d.sq = R(0))

\* a plausible slip: the sign of the side is dropped
distanceSign_positive(t) == 1
\* t > 0 gives -1, otherwise +1
distanceSign(t) == IF Sign(t) > 0 THEN -1 ELSE 1

\* a plausible slip: the guard left out
inPlane_never(t) == FALSE
\* the in-plane test of distance: t == 0.0
inPlane(t) == Sign(t) = 0

\* |scale(e, saturate(dot(e,q)/dot2(e))) - q|^2
edgeDistance2(e, q) ==
    Dot2(Sub(Scale(e, Saturate(RDiv(Dot(e, q), Dot2(e)))), q))

distance(p, a, b, c) ==
    LET ba == Sub(b, a)
        pa == Sub(p, a)
        cb == Sub(c, b)
        pb == Sub(p, b)
        ac == Sub(a, c)
        pcv == Sub(p, c)
        n == Cross(ba, ac)
        t == Dot(n, Sub(p, Scale(Add(Add(b, c), a), Rat(1, 3))))
    IN  IF inPlane(t) THEN posBigDistance
        ELSE IF Sign(Dot(Cross(ba, n), pa))
                + Sign(Dot(Cross(cb, n), pa))
                + Sign(Dot(Cross(ac, n), pa)) < 2
             THEN CopysignSqrt(Min3(edgeDistance2(ba, pa),
                                    edgeDistance2(cb, pb),
                                    edgeDistance2(ac, pcv)), distanceSign(t))
             ELSE CopysignSqrt(RDiv(RMul(Dot(n, pa), Dot(n, pa)), Dot2(n)),
                               distanceSign(t))


---------------------------------------------------------------------------
(* The parts of the state a specification leaves alone.                    *)

LoadIdle ==
    /\ pc = "idle" /\ Vertices = <<>> /\ Triangles = <<>>
    /\ Min = <<posBigfloat64, posBigfloat64, posBigfloat64>>
    /\ Max = <<negBigfloat64, negBigfloat64, negBigfloat64>>
    /\ edgeCount = <<>> /\ err = "nil" /\ mesh = "nil" /\ lines = <<>>

DistIdle ==
    /\ dpc = "idle"
    /\ dp = <<0, 0, 0>> /\ da = <<0, 0, 0>> /\ db = <<0, 0, 0>> /\ dc = <<0, 0, 0>>
    /\ d0 = posBigDistance /\ d1 = posBigDistance

GridIdle ==
    /\ gpc = "idle"
    /\ gmesh = [Vertices |-> <<>>, Triangles |-> <<>>]
    /\ dims = <<2, 2, 2>>
    /\ gridMin = RVec(<<0, 0, 0>>) /\ gridMax = RVec(<<1, 1, 1>>)
    /\ triangleLists = <<>>
    /\ cell = <<0, 0, 0>>
    /\ layer = 0 /\ visitedTriangles = {} /\ foundTriangles = FALSE
    /\ minDistance = posBigDistance /\ result = "none"

WindIdle ==
    /\ wpc = "idle"
    /\ triangleA = <<0, 0, 0>> /\ triangleB = <<0, 0, 0>> /\ shared = <<0, 0>>
    /\ sameWinding = FALSE

CalcIdle ==
    /\ cpc = "idle" /\ data = <<>> /\ writes = <<>> /\ worker = <<>>
    /\ minD = posBigDistance /\ maxD = posBigDistance
    /\ queried = <<>> /\ progress = 0 /\ mu = -1 /\ wg = 0 /\ mergeOrder = <<>>

QuantIdle ==
    /\ qpc = "idle" /\ qv = R(0) /\ qminD = R(0) /\ qmaxD = R(0)
    /\ qbits = 8 /\ outputData = <<>>

SizeIdle ==
    /\ spc = "idle" /\ resolution = 0
    /\ meshMin = RVec(<<0, 0, 0>>) /\ meshMax = RVec(<<0, 0, 0>>)

FixIdle ==
    /\ fpc = "idle" /\ meshTriangles = <<>> /\ numCPU = 1 /\ fworker = <<>>
    /\ fwg = 0 /\ examined = <<>> /\ disconnected = <<>> /\ inverted = {}

MoreIdle == WindIdle /\ CalcIdle /\ QuantIdle /\ SizeIdle /\ FixIdle

---------------------------------------------------------------------------
(* LoadOBJ.  A line is what strings.Fields makes of it: a sequence of       *)
(* tokens; a token is what strings.Split(token, "/") makes of it: a         *)
(* sequence of strings ("1/7" is <<"1", "7">>, "abc" is <<"abc">>).         *)

Tok(s) == <<s>>
Line3(k, x, y, z) == <<Tok(k), Tok(x), Tok(y), Tok(z)>>

\* the numerals among the strings of the input alphabet, with their values
Numerals ==
    ("-1" :> -1) @@ ("0" :> 0) @@ ("1" :> 1) @@ ("2" :> 2) @@ ("3" :> 3) @@ ("4" :> 4)

\* x, _ := strconv.ParseFloat(token, 64): the error is dropped and x is 0
ParseFloat(token) ==
    IF Len(token) = 1 /\ token[1] \in DOMAIN Numerals
    THEN R(Numerals[token[1]]) ELSE R(0)

\* v, _ := strconv.Atoi(strings.Split(token, "/")[0]): the error is dropped, v is 0
AtoiFirst(token) ==
    IF token[1] \in DOMAIN Numerals THEN Numerals[token[1]] ELSE 0

\* uint32(i), as <<high 16 bits, low 16 bits>>
Uint32(i) == <<(i \div 65536) % 65536, i % 65536>>
\* a < b on uint32
ULess(a, b) == a[1] < b[1] \/ (a[1] = b[1] /\ a[2] < b[2])
\* the uint32 u is a valid index of a slice of length n
InRange(u, n) == u[1] = 0 /\ u[2] < n

\* a plausible slip: the key keeps the direction of the edge
edgeKeyOf_directed(a, b) == <<a, b>>
\* the edge sorted to make it undirected: edgeKey{A: a, B: b}
edgeKeyOf(a, b) == IF ULess(b, a) THEN <<b, a>> ELSE <<a, b>>

\* edgeCount[key]++
Increment(count, key) ==
    IF key \in DOMAIN count
    THEN [count EXCEPT ![key] = @ + 1]
    ELSE [k \in DOMAIN count \cup {key} |-> IF k = key THEN 1 ELSE count[k]]

\* the three edges of a face, counted
countEdges(count, triangle) ==
    Increment(Increment(Increment(count,
        edgeKeyOf(triangle[1], triangle[2])),
        edgeKeyOf(triangle[2], triangle[3])),
        edgeKeyOf(triangle[3], triangle[1]))

\* a plausible slip: the second axis is fed the first coordinate
updateMin_axis(m, v) == <<FMin(m[1], v[1]), FMin(m[2], v[1]), FMin(m[3], v[3])>>
\* model.Min[i] = min(model.Min[i], coordinate i)
updateMin(m, v) == <<FMin(m[1], v[1]), FMin(m[2], v[2]), FMin(m[3], v[3])>>
\* model.Max[i] = max(model.Max[i], coordinate i)
updateMax(m, v) == <<FMax(m[1], v[1]), FMax(m[2], v[2]), FMax(m[3], v[3])>>

\* a plausible slip: only too few references are refused
faceTokensOk_atLeast(tokens) == Len(tokens) >= 4
\* len(tokens) == 4: "f" and three references
faceTokensOk(tokens) == Len(tokens) = 4

\* The input alphabet.
VertexLines ==
    { Line3("v", "2", "0", "0"),
      Line3("v", "-1", "3", "1"),
      Line3("v", "abc", "1", "2"),            \* a coordinate that is no number
      <<Tok("v"), Tok("1"), Tok("2")>> }      \* a coordinate missing
FaceLines ==
    { Line3("f", "1", "2", "3"),
      Line3("f", "3", "2", "1"),
      <<Tok("f"), <<"1", "1">>, <<"3", "2">>, <<"2", "3">>>>,   \* f 1/1 3/2 2/3
      Line3("f", "0", "1", "2"),              \* reference 0
      Line3("f", "1", "2", "x"),              \* a reference that is no integer
      <<Tok("f"), Tok("1"), Tok("2"), Tok("3"), Tok("4")>> }    \* a quad
SkippedLines == { <<>>, <<Tok("#"), Tok("tetrahedron")>> }
OtherLines == { Line3("vn", "0", "0", "1") }

MaxLines == 4

ErrOpen == "open"
ErrVertex == "unexpected number of vertices"
ErrFace == "only triangular faces supported"
ErrWatertight == "mesh is not watertight"
ErrScanner == "scanner"

\* os.Open(filepath)
Open ==
    /\ pc = "open"
    /\ \/ /\ pc' = "done" /\ err' = ErrOpen /\ mesh' = "nil"
       \/ /\ pc' = "scan" /\ UNCHANGED <<err, mesh>>
    /\ UNCHANGED <<Vertices, Triangles, Min, Max, edgeCount, lines>>
    /\ UNCHANGED <<distVars, gridVars, moreVars>>

\* a line that is empty after TrimSpace, or starts with "#"
ScanSkipped ==
    /\ pc = "scan" /\ Len(lines) < MaxLines
    /\ \E line \in SkippedLines : lines' = Append(lines, line)
    /\ UNCHANGED <<pc, Vertices, Triangles, Min, Max, edgeCount, err, mesh>>
    /\ UNCHANGED <<distVars, gridVars, moreVars>>

\* a line whose first token is neither "v" nor "f": the switch has no default
ScanOther ==
    /\ pc = "scan" /\ Len(lines) < MaxLines
    /\ \E line \in OtherLines : lines' = Append(lines, line)
    /\ UNCHANGED <<pc, Vertices, Triangles, Min, Max, edgeCount, err, mesh>>
    /\ UNCHANGED <<distVars, gridVars, moreVars>>

\* case "v"
ScanVertex ==
    /\ pc = "scan" /\ Len(lines) < MaxLines
    /\ \E tokens \in VertexLines :
          /\ lines' = Append(lines, tokens)
          /\ IF Len(tokens) # 4
             THEN /\ pc' = "done" /\ err' = ErrVertex /\ mesh' = "nil"
                  /\ UNCHANGED <<Vertices, Min, Max>>
             ELSE LET vertex == <<ParseFloat(tokens[2]), ParseFloat(tokens[3]),
                                  ParseFloat(tokens[4])>>
                  IN  /\ Vertices' = Append(Vertices, vertex)
                      /\ Min' = updateMin(Min, vertex)
                      /\ Max' = updateMax(Max, vertex)
                      /\ UNCHANGED <<pc, err, mesh>>
    /\ UNCHANGED <<Triangles, edgeCount>>
    /\ UNCHANGED <<distVars, gridVars, moreVars>>

\* case "f"
ScanFace ==
    /\ pc = "scan" /\ Len(lines) < MaxLines
    /\ \E tokens \in FaceLines :
          /\ lines' = Append(lines, tokens)
          /\ IF ~faceTokensOk(tokens)
             THEN /\ pc' = "done" /\ err' = ErrFace /\ mesh' = "nil"
                  /\ UNCHANGED <<Triangles, edgeCount>>
             ELSE LET triangle == <<Uint32(AtoiFirst(tokens[2]) - 1),
                                    Uint32(AtoiFirst(tokens[3]) - 1),
                                    Uint32(AtoiFirst(tokens[4]) - 1)>>
                  IN  /\ Triangles' = Append(Triangles, triangle)
                      /\ edgeCount' = countEdges(edgeCount, triangle)
                      /\ UNCHANGED <<pc, err, mesh>>
    /\ UNCHANGED <<Vertices, Min, Max>>
    /\ UNCHANGED <<distVars, gridVars, moreVars>>

\* scanner.Scan() returns false, at the end of the input or on a read error:
\* the watertight check, then scanner.Err(), then the mesh is returned
ScanEnd ==
    /\ pc = "scan"
    /\ \E readError \in BOOLEAN :
          IF \E key \in DOMAIN edgeCount : edgeCount[key] # 2
          THEN err' = ErrWatertight /\ mesh' = "nil"
          ELSE IF readError
               THEN err' = ErrScanner /\ mesh' = "nil"
               ELSE err' = "nil" /\ mesh' = "model"
    /\ pc' = "done"
    /\ UNCHANGED <<Vertices, Triangles, Min, Max, edgeCount, lines>>
    /\ UNCHANGED <<distVars, gridVars, moreVars>>

InitLoad ==
    /\ pc = "open" /\ Vertices = <<>> /\ Triangles = <<>>
    /\ Min = <<posBigfloat64, posBigfloat64, posBigfloat64>>
    /\ Max = <<negBigfloat64, negBigfloat64, negBigfloat64>>
    /\ edgeCount = <<>> /\ err = "nil" /\ mesh = "nil" /\ lines = <<>>
    /\ DistIdle /\ GridIdle /\ MoreIdle
NextLoad == Open \/ ScanSkipped \/ ScanOther \/ ScanVertex \/ ScanFace \/ ScanEnd
Spec == InitLoad /\ [][NextLoad]_vars

\* What the claims about LoadOBJ speak of.
IsVertexLine(l) == Len(l) > 0 /\ l[1] = Tok("v")
IsFaceLine(l) == Len(l) > 0 /\ l[1] = Tok("f")
IsNumber(token) == Len(token) = 1 /\ token[1] \in DOMAIN Numerals
IsInteger(token) == token[1] \in DOMAIN Numerals
\* a vertex or face record of the right length with a malformed numeric token
HasMalformedNumber(l) ==
    \/ IsVertexLine(l) /\ Len(l) = 4 /\ \E i \in 2..4 : ~IsNumber(l[i])
    \/ IsFaceLine(l) /\ Len(l) = 4 /\ \E i \in 2..4 : ~IsInteger(l[i])
\* how often the undirected edge {u, v} occurs in the faces read, whatever
\* their order and whichever way each face walks the edge
EdgeOccurrences(u, v) ==
    Cardinality({ij \in (1..Len(Triangles)) \X (1..3) :
        {Triangles[ij[1]][ij[2]], Triangles[ij[1]][(ij[2] % 3) + 1]} = {u, v}})
EveryEdgeTwice ==
    \A i \in 1..Len(Triangles), j \in 1..3 :
        EdgeOccurrences(Triangles[i][j], Triangles[i][(j % 3) + 1]) = 2
\* the load ran to the end of the records (it did not return from the loop)
ReadToEnd == pc = "done" /\ err \notin {ErrOpen, ErrVertex, ErrFace}
SetMin(S) == CHOOSE m \in S : \A x \in S : RLeq(m, x)
SetMax(S) == CHOOSE m \in S : \A x \in S : RLeq(x, m)
Coordinates(vs, i) == {vs[k][i] : k \in 1..Len(vs)}

\* C5: the counts kept per sorted edge key are the numbers of occurrences of
\* the undirected edges in the faces read, in any order and direction; and
\* once all records are read the load fails with "mesh is not watertight"
\* and no mesh iff some edge occurred other than twice.
C5_WatertightCheck ==
    /\ \A key \in DOMAIN edgeCount :
          edgeCount[key] = EdgeOccurrences(key[1], key[2])
    /\ \A i \in 1..Len(Triangles), j \in 1..3 :
          \E key \in DOMAIN edgeCount :
             {key[1], key[2]} = {Triangles[i][j], Triangles[i][(j % 3) + 1]}
    /\ ReadToEnd =>
          IF EveryEdgeTwice
          THEN err # ErrWatertight
          ELSE err = ErrWatertight /\ mesh = "nil"

C5_Witness ==
    /\ pc = "done" /\ err = "nil" /\ mesh = "model"
    /\ Len(Triangles) = 2
    /\ Triangles[1] = <<Uint32(0), Uint32(1), Uint32(2)>>
    /\ Triangles[2] = <<Uint32(0), Uint32(2), Uint32(1)>>

\* C6: a vertex or face record with a malformed numeric token fails the
\* load: no mesh is returned (shown on loads that read at least one vertex
\* and one face, so that the empty mesh of C10 plays no part).
C6_MalformedTokenFails ==
    (mesh = "model" /\ Len(Vertices) >= 1 /\ Len(Triangles) >= 1)
    => \A i \in 1..Len(lines) : ~HasMalformedNumber(lines[i])

\* C7: once a face record with other than three references is read, the
\* load has failed with "only triangular faces supported" and no mesh,
\* whatever was read before it.
C7_NonTriangularFaceFails ==
    (\E i \in 1..Len(lines) : IsFaceLine(lines[i]) /\ Len(lines[i]) # 4)
    => pc = "done" /\ err = ErrFace /\ mesh = "nil"

C7_Witness ==
    /\ Len(lines) = 3 /\ IsFaceLine(lines[3]) /\ Len(lines[3]) = 5
    /\ Len(Vertices) = 1 /\ Len(Triangles) = 1
    /\ err = ErrFace /\ mesh = "nil"

\* C8: a returned mesh holds no triangle with a vertex index >= the number
\* of vertices (shown on loads that read at least one vertex).
C8_IndicesInRange ==
    (mesh = "model" /\ Len(Vertices) >= 1)
    => \A i \in 1..Len(Triangles), j \in 1..3 :
          InRange(Triangles[i][j], Len(Vertices))

\* C9: after every record, once a vertex has been read, Min[i] and Max[i]
\* are the minimum and the maximum of coordinate i over the vertices read
\* (so Min[i] <= Max[i]); a record that is no vertex leaves Min and Max
\* unchanged.
C9_RunningMinMax ==
    [][ /\ Len(Vertices') >= 1 =>
              \A i \in 1..3 :
                 /\ Min'[i] = SetMin(Coordinates(Vertices', i))
                 /\ Max'[i] = SetMax(Coordinates(Vertices', i))
                 /\ RLeq(Min'[i], Max'[i])
        /\ Vertices' = Vertices => (Min' = Min /\ Max' = Max) ]_vars

C9_Witness ==
    /\ Len(Vertices) = 2 /\ Len(lines) = 3 /\ IsFaceLine(lines[3])
    /\ Len(Triangles) = 1
    /\ Min = <<R(-1), R(0), R(0)>> /\ Max = <<R(2), R(3), R(1)>>

\* C10: no mesh is returned for an input without a vertex record or
\* without a face record.
C10_EmptyMeshFails ==
    mesh = "model" => Len(Vertices) >= 1 /\ Len(Triangles) >= 1

---------------------------------------------------------------------------
(* SpecDist: distance(p, a, b, c) and distance(p, b, a, c) on lattice      *)
(* points, among them the points of TestDistance.                          *)

DistPoints ==
    { <<0, 1, -1>>, <<0, -1, -1>>, <<0, 0, 1>>,     \* a, b, c of TestDistance
      <<-1, 0, 0>>, <<0, 3, -1>>,                   \* its points p
      <<1, 0, 0>>, <<2, 1, 1>> }

DistArgs ==
    /\ dpc = "idle"
    /\ \E p \in DistPoints, a \in DistPoints, b \in DistPoints, c \in DistPoints :
          /\ dp' = p /\ da' = a /\ db' = b /\ dc' = c
    /\ dpc' = "args"
    /\ UNCHANGED <<d0, d1, loadVars, gridVars, moreVars>>

DistEval ==
    /\ dpc = "args"
    /\ d0' = distance(RVec(dp), RVec(da), RVec(db), RVec(dc))
    /\ dpc' = "d0"
    /\ UNCHANGED <<dp, da, db, dc, d1, loadVars, gridVars, moreVars>>

DistEvalSwapped ==
    /\ dpc = "d0"
    /\ d1' = distance(RVec(dp), RVec(db), RVec(da), RVec(dc))
    /\ dpc' = "d1"
    /\ UNCHANGED <<dp, da, db, dc, d0, loadVars, gridVars, moreVars>>

InitDist == LoadIdle /\ DistIdle /\ GridIdle /\ MoreIdle
NextDist == DistArgs \/ DistEval \/ DistEvalSwapped
SpecDist == InitDist /\ [][NextDist]_vars

\* The geometry the claims speak of, stated without the code's t.
Normal(a, b, c) == Cross(Sub(b, a), Sub(c, a))
NonDegenerate(a, b, c) == Normal(a, b, c) # <<R(0), R(0), R(0)>>
OnPlane(p, a, b, c) == Dot(Normal(a, b, c), Sub(p, a)) = R(0)
\* squared distance from p to the segment [u, v], u # v
SegmentDist2(p, u, v) ==
    LET e == Sub(v, u)
        q == Sub(p, u)
        s == Dot(e, q)
    IN  IF Sign(s) <= 0 THEN Dot2(q)
        ELSE IF RLeq(Dot2(e), s) THEN Dot2(Sub(p, v))
        ELSE RSub(Dot2(q), RDiv(RMul(s, s), Dot2(e)))
\* p, a point of the plane of (a, b, c), lies in the closed triangle
InsideTriangle(p, a, b, c) ==
    LET n == Normal(a, b, c)
    IN  /\ Sign(Dot(Cross(Sub(b, a), Sub(p, a)), n)) >= 0
        /\ Sign(Dot(Cross(Sub(c, b), Sub(p, b)), n)) >= 0
        /\ Sign(Dot(Cross(Sub(a, c), Sub(p, c)), n)) >= 0
\* squared Euclidean distance from an in-plane point to the triangle
InPlaneDist2(p, a, b, c) ==
    IF InsideTriangle(p, a, b, c) THEN R(0)
    ELSE Min3(SegmentDist2(p, a, b), SegmentDist2(p, b, c), SegmentDist2(p, c, a))

C4_InPlaneDistance ==
    (/\ dpc \in {"d0", "d1"}
     /\ NonDegenerate(RVec(da), RVec(db), RVec(dc))
     /\ OnPlane(RVec(dp), RVec(da), RVec(db), RVec(dc)))
    => /\ d0.sq = InPlaneDist2(RVec(dp), RVec(da), RVec(db), RVec(dc))
       /\ (dp \in {da, db, dc} => IsZero(d0))
       /\ (/\ da = <<0, -1, -1>> /\ db = <<0, 1, -1>> /\ dc = <<0, 0, 1>>
           /\ dp = <<0, 3, -1>>) => d0.sq = R(4)

\* the foot of the perpendicular from p on the plane of (a, b, c)
Projection(p, a, b, c) ==
    LET n == Normal(a, b, c)
    IN  Sub(p, Scale(n, RDiv(Dot(n, Sub(p, a)), Dot2(n))))
\* squared distance from p to the plane of (a, b, c)
PlaneDist2(p, a, b, c) ==
    LET n == Normal(a, b, c)
    IN  RDiv(RMul(Dot(n, Sub(p, a)), Dot(n, Sub(p, a))), Dot2(n))
\* squared Euclidean distance from p to the closest point of the triangle
TriangleDist2(p, a, b, c) ==
    RAdd(PlaneDist2(p, a, b, c),
         InPlaneDist2(Projection(p, a, b, c), a, b, c))

\* C21: for every point p off the plane of a non-degenerate triangle
\* (a, b, c), the magnitude of distance(p, a, b, c) is the Euclidean distance
\* from p to the closest point of the triangle (the perpendicular distance
\* when the projection of p falls inside the triangle, the distance to the
\* nearest edge segment otherwise).
C21_EuclideanDistance ==
    (/\ dpc \in {"d0", "d1"}
     /\ NonDegenerate(RVec(da), RVec(db), RVec(dc))
     /\ ~OnPlane(RVec(dp), RVec(da), RVec(db), RVec(dc)))
    => d0.sq = TriangleDist2(RVec(dp), RVec(da), RVec(db), RVec(dc))

---------------------------------------------------------------------------
(* createTriangleLists and distanceUsingList.                              *)

\* Returns triangle bounding box
getTriangleAABB(v0, v1, v2) ==
    <<[i \in 1..3 |-> Min3(v0[i], v1[i], v2[i])],
      [i \in 1..3 |-> Max3(v0[i], v1[i], v2[i])]>>

\* m.Vertices[u], u a uint32
VertexAt(m, u) == m.Vertices[u[2] + 1]
TriangleVertices(m, triangleIdx) ==
    LET triangle == m.Triangles[triangleIdx + 1]
    IN  <<VertexAt(m, triangle[1]), VertexAt(m, triangle[2]), VertexAt(m, triangle[3])>>

\* int(math.Floor((tMin - gridMin) / (gridMax - gridMin) * float64(s)))
minIndex(tMin, gMin, gMax, s) ==
    RFloor(RMul(RDiv(RSub(tMin, gMin), RSub(gMax, gMin)), R(s)))
\* a plausible slip: the upper index rounded down like the lower one
maxIndex_floor(tMax, gMin, gMax, s) ==
    RFloor(RMul(RDiv(RSub(tMax, gMin), RSub(gMax, gMin)), R(s)))
\* int(math.Ceil((tMax - gridMin) / (gridMax - gridMin) * float64(s)))
maxIndex(tMax, gMin, gMax, s) ==
    RCeil(RMul(RDiv(RSub(tMax, gMin), RSub(gMax, gMin)), R(s)))

\* the loops of createTriangleLists reach cell (x, y, z) for the triangle
reachesCell(m, triangleIdx, d, gMin, gMax, c) ==
    LET v == TriangleVertices(m, triangleIdx)
        box == getTriangleAABB(v[1], v[2], v[3])
    IN  \A i \in 1..3 :
           /\ IMax(0, minIndex(box[1][i], gMin[i], gMax[i], d[i] - 1)) <= c[i]
           /\ c[i] <= IMin(d[i] - 1, maxIndex(box[2][i], gMin[i], gMax[i], d[i] - 1))

\* the cell of a linear index x + y*width + z*width*height
cellOf(idx, d) == <<idx % d[1], (idx \div d[1]) % d[2], idx \div (d[1] * d[2])>>
linearIndex(c, d) == c[1] + c[2] * d[1] + c[3] * d[1] * d[2]

\* the lists: the triangles are appended in the order of m.Triangles
createTriangleLists(m, d, gMin, gMax) ==
    [idx \in 0..(d[1] * d[2] * d[3] - 1) |->
        SelectSeq([k \in 1..Len(m.Triangles) |-> k - 1],
                  LAMBDA triangleIdx :
                     reachesCell(m, triangleIdx, d, gMin, gMax, cellOf(idx, d)))]

\* p of calculate: cell * pointScale + pointBias
pointAt(c, d, gMin, gMax) ==
    [i \in 1..3 |->
        RAdd(RMul(R(c[i]), RDiv(RSub(gMax[i], gMin[i]), R(d[i] - 1))), gMin[i])]

\* processTriangle: the running minimum by absolute value
processTriangle(m, p, triangleIdx, best) ==
    LET v == TriangleVertices(m, triangleIdx)
        d == distance(p, v[1], v[2], v[3])
    IN  IF AbsLess(d, best) THEN d ELSE best

\* the innermost loop body for triangleIdx, from the scan state st:
\* st.min, st.visited, st.found, st.zero (the function has returned 0.0)
visitTriangle(m, p, triangleIdx, st) ==
    IF triangleIdx \in st.visited THEN st
    ELSE CHOOSE r \in { [min |-> md, visited |-> st.visited \cup {triangleIdx},
                         found |-> TRUE, zero |-> IsZero(md)] :
                        md \in {processTriangle(m, p, triangleIdx, st.min)} } : TRUE
\* for _, triangleIdx := range list
RECURSIVE scanList(_, _, _, _, _)
scanList(m, p, list, i, st) ==
    IF st.zero \/ i > Len(list) THEN st
    ELSE CHOOSE r \in { scanList(m, p, list, i + 1, nx) :
                        nx \in {visitTriangle(m, p, list[i], st)} } : TRUE

\* a plausible slip: the xx loop does not grow with the layer
shellCells_fixedX(c, d, k) ==
    LET y0 == IMax(0, c[2] - k)
        z0 == IMax(0, c[3] - k)
        ny == IMax(0, IMin(c[2] + k, d[2] - 1) - y0 + 1)
        nz == IMax(0, IMin(c[3] + k, d[3] - 1) - z0 + 1)
    IN  [j \in 1..(ny * nz) |->
            <<c[1], y0 + ((j - 1) % ny), z0 + ((j - 1) \div ny)>>]
\* the cells of the cube of radius k around c, in the order of the loops:
\* zz outermost, xx innermost
shellCells(c, d, k) ==
    LET x0 == IMax(0, c[1] - k)
        y0 == IMax(0, c[2] - k)
        z0 == IMax(0, c[3] - k)
        nx == IMax(0, IMin(c[1] + k, d[1] - 1) - x0 + 1)
        ny == IMax(0, IMin(c[2] + k, d[2] - 1) - y0 + 1)
        nz == IMax(0, IMin(c[3] + k, d[3] - 1) - z0 + 1)
    IN  [j \in 1..(nx * ny * nz) |->
            <<x0 + ((j - 1) % nx), y0 + (((j - 1) \div nx) % ny),
              z0 + ((j - 1) \div (nx * ny))>>]
\* a plausible slip: the loops are left as soon as a triangle was found
RECURSIVE scanCells_stopFound(_, _, _, _, _, _, _)
scanCells_stopFound(m, p, lists, cells, d, j, st) ==
    IF st.zero \/ st.found \/ j > Len(cells) THEN st
    ELSE CHOOSE r \in { scanCells_stopFound(m, p, lists, cells, d, j + 1, nx) :
                        nx \in { scanList(m, p, list, 1, st) :
                                 list \in {lists[linearIndex(cells[j], d)]} } } : TRUE
\* the loops over zz, yy, xx and the list of each cell
RECURSIVE scanCells(_, _, _, _, _, _, _)
scanCells(m, p, lists, cells, d, j, st) ==
    IF st.zero \/ j > Len(cells) THEN st
    ELSE CHOOSE r \in { scanCells(m, p, lists, cells, d, j + 1, nx) :
                        nx \in { scanList(m, p, list, 1, st) :
                                 list \in {lists[linearIndex(cells[j], d)]} } } : TRUE
\* one pass of the body of "for !foundTriangles" at the given layer
scanShell(m, p, lists, c, d, k, st) ==
    CHOOSE r \in { scanCells(m, p, lists, cells, d, 1, st) :
                   cells \in {shellCells(c, d, k)} } : TRUE

\* the branch triangleLists == nil: every triangle of the mesh
bruteForce(m, p) ==
    scanList(m, p, [k \in 1..Len(m.Triangles) |-> k - 1], 1,
             [min |-> posBigDistance, visited |-> {}, found |-> FALSE, zero |-> FALSE])
\* The meshes: watertight (every edge in exactly two faces), as LoadOBJ
\* accepts them.
Tri(a, b, c) == <<Uint32(a), Uint32(b), Uint32(c)>>
Tetrahedron ==
    [Vertices |-> <<RVec(<<0, 0, 0>>), RVec(<<2, 0, 0>>),
                    RVec(<<0, 2, 0>>), RVec(<<0, 0, 2>>)>>,
     Triangles |-> <<Tri(0, 1, 2), Tri(0, 3, 1), Tri(0, 2, 3), Tri(1, 3, 2)>>]
TwoTetrahedra ==
    [Vertices |-> <<RVec(<<0, 0, 0>>), RVec(<<1, 0, 0>>),
                    RVec(<<0, 1, 0>>), RVec(<<0, 0, 1>>),
                    RVec(<<2, 2, 2>>), RVec(<<3, 2, 2>>),
                    RVec(<<2, 3, 2>>), RVec(<<2, 2, 3>>)>>,
     Triangles |-> <<Tri(0, 1, 2), Tri(0, 3, 1), Tri(0, 2, 3), Tri(1, 3, 2),
                     Tri(4, 5, 6), Tri(4, 7, 5), Tri(4, 6, 7), Tri(5, 7, 6)>>]
Meshes == {Tetrahedron, TwoTetrahedra}

\* mesh.Min, mesh.Max as LoadOBJ leaves them
RECURSIVE boundsOf(_, _, _, _)
boundsOf(vs, i, lo, hi) ==
    IF i > Len(vs) THEN <<lo, hi>>
    ELSE boundsOf(vs, i + 1, updateMin(lo, vs[i]), updateMax(hi, vs[i]))
meshBounds(m) ==
    boundsOf(m.Vertices, 1,
             <<posBigfloat64, posBigfloat64, posBigfloat64>>,
             <<negBigfloat64, negBigfloat64, negBigfloat64>>)

\* The grid boxes: the mesh box (as the tests pass it), the mesh box with a
\* border of 1 on every side, a box moved by 1 that cuts the mesh, and a
\* box of the same size that meets the mesh box in its lowest corner only.
GridBoxes(m) ==
    LET b == meshBounds(m)
        one == RVec(<<1, 1, 1>>)
    IN  { <<b[1], b[2]>>,
          <<Sub(b[1], one), Add(b[2], one)>>,
          <<Add(b[1], one), Add(b[2], one)>>,
          <<Sub(b[1], Sub(b[2], b[1])), b[1]>> }

MaxDim == 3
MaxLayer == 4

ChooseGrid ==
    /\ gpc = "idle"
    /\ \E m \in Meshes, w \in 2..MaxDim, h \in 2..MaxDim, d \in 2..MaxDim :
          /\ gmesh' = m
          /\ dims' = <<w, h, d>>
          /\ \E box \in GridBoxes(m) : gridMin' = box[1] /\ gridMax' = box[2]
    /\ gpc' = "grid"
    /\ UNCHANGED <<triangleLists, cell, layer, visitedTriangles, foundTriangles,
                   minDistance, result>>
    /\ UNCHANGED <<loadVars, distVars, moreVars>>

\* triangleLists := mesh.createTriangleLists(width, height, depth, gridMin, gridMax)
CreateTriangleLists ==
    /\ gpc = "grid"
    /\ triangleLists' = createTriangleLists(gmesh, dims, gridMin, gridMax)
    /\ gpc' = "ready"
    /\ UNCHANGED <<gmesh, dims, gridMin, gridMax, cell, layer, visitedTriangles,
                   foundTriangles, minDistance, result>>
    /\ UNCHANGED <<loadVars, distVars, moreVars>>

\* the caller passes no lists: triangleLists stays nil
NoTriangleLists ==
    /\ gpc = "grid"
    /\ gpc' = "ready"
    /\ UNCHANGED <<gmesh, dims, gridMin, gridMax, triangleLists, cell, layer,
                   visitedTriangles, foundTriangles, minDistance, result>>
    /\ UNCHANGED <<loadVars, distVars, moreVars>>

\* distanceUsingList(p, width, height, depth, ix, iy, iz, triangleLists): entry
StartQuery ==
    /\ gpc = "ready"
    /\ \E ix \in 0..(dims[1] - 1), iy \in 0..(dims[2] - 1), iz \in 0..(dims[3] - 1) :
          cell' = <<ix, iy, iz>>
    /\ visitedTriangles' = {} /\ foundTriangles' = FALSE /\ layer' = 0
    /\ minDistance' = posBigDistance
    /\ gpc' = "scan"
    /\ UNCHANGED <<gmesh, dims, gridMin, gridMax, triangleLists, result>>
    /\ UNCHANGED <<loadVars, distVars, moreVars>>

\* triangleLists == nil: the loop over m.Triangles
ScanAll ==
    /\ gpc = "scan" /\ triangleLists = <<>>
    /\ \E st \in {bruteForce(gmesh, pointAt(cell, dims, gridMin, gridMax))} :
           /\ minDistance' = st.min
           /\ result' = IF st.zero THEN CopysignSqrt(R(0), 1) ELSE st.min
    /\ gpc' = "returned"
    /\ UNCHANGED <<gmesh, dims, gridMin, gridMax, triangleLists, cell, layer,
                   visitedTriangles, foundTriangles>>
    /\ UNCHANGED <<loadVars, distVars, moreVars>>

\* one pass of "for !foundTriangles": the cells of the shell, then layer++;
\* the function returns 0.0 from within the shell, or minDistance once
\* foundTriangles is set
ScanLayer ==
    /\ gpc = "scan" /\ triangleLists # <<>>
    /\ layer <= MaxLayer
    /\ \E st \in {scanShell(gmesh, pointAt(cell, dims, gridMin, gridMax),
                            triangleLists, cell, dims, layer,
                            [min |-> minDistance, visited |-> visitedTriangles,
                             found |-> foundTriangles, zero |-> FALSE])} :
           /\ minDistance' = st.min
           /\ visitedTriangles' = st.visited
           /\ foundTriangles' = st.found
           /\ IF st.zero
              THEN /\ result' = CopysignSqrt(R(0), 1) /\ gpc' = "returned"
                   /\ UNCHANGED layer
              ELSE /\ layer' = layer + 1
                   /\ IF st.found
                      THEN result' = st.min /\ gpc' = "returned"
                      ELSE UNCHANGED <<result, gpc>>
    /\ UNCHANGED <<gmesh, dims, gridMin, gridMax, triangleLists, cell>>
    /\ UNCHANGED <<loadVars, distVars, moreVars>>

InitGrid == LoadIdle /\ DistIdle /\ GridIdle /\ MoreIdle
NextGrid ==
    \/ ChooseGrid \/ CreateTriangleLists \/ NoTriangleLists
    \/ StartQuery \/ ScanAll \/ ScanLayer
SpecGrid == InitGrid /\ [][NextGrid]_vars

---------------------------------------------------------------------------
(* distanceBruteForce of the tests: the reference of the comparison.       *)

\* math32.Inf(1), above posBigfloat64 in absolute value
infDistance == [sgn |-> 1, sq |-> <<2, 0>>]
\* math32.Abs(d) < math32.Abs(minDistance)
AbsLessInf(d, best) == best = infDistance \/ AbsLess(d, best)
RECURSIVE bruteForceFrom(_, _, _, _)
bruteForceFrom(m, p, i, best) ==
    IF i > Len(m.Triangles) THEN best
    ELSE LET v == TriangleVertices(m, i - 1)
             d == distance(p, v[1], v[2], v[3])
         IN  IF IsZero(d) THEN CopysignSqrt(R(0), 1)
             ELSE bruteForceFrom(m, p, i + 1, IF AbsLessInf(d, best) THEN d ELSE best)
distanceBruteForce(m, p) == bruteForceFrom(m, p, 1, infDistance)

---------------------------------------------------------------------------
(* Claims on createTriangleLists and distanceUsingList.                    *)

\* the grid box encloses the mesh
Encloses(gMin, gMax, m) ==
    LET b == meshBounds(m)
    IN  \A i \in 1..3 : RLeq(gMin[i], b[1][i]) /\ RLeq(b[2][i], gMax[i])

RAbs(a) == IF a[1] < 0 THEN RNeg(a) ELSE a
\* Implied by |d - e| <= 1/100 for the floats d, e given by sign and square:
\* sqrt(x) <= (x + 1) / 2, so |d^2 - e^2| <= (d^2 + e^2 + 2) / 200; opposite
\* signs only when both squares are at most 1/10000. The sentinel is close
\* only to itself.
Close(d, e) ==
    IF IsBig(d.sq) \/ IsBig(e.sq) THEN d = e
    ELSE /\ RLeq(RMul(R(200), RAbs(RSub(d.sq, e.sq))), RAdd(RAdd(d.sq, e.sq), R(2)))
         /\ \/ d.sgn = e.sgn
            \/ RLeq(d.sq, Rat(1, 10000)) /\ RLeq(e.sq, Rat(1, 10000))

\* C1: for a watertight mesh, a grid whose box encloses the mesh and a grid
\* sample (x, y, z) with its point p, distanceUsingList with the lists of
\* createTriangleLists returns the same signed distance as the brute-force
\* search over all triangles, within a small tolerance.
\* (Stated for the samples where the lists give a finite distance: a sample in
\* the plane of every triangle it meets gives the sentinel of distance.)
C1_IndexEqualsBruteForce ==
    (/\ gpc = "returned" /\ triangleLists # <<>>
     /\ Encloses(gridMin, gridMax, gmesh)
     /\ ~IsBig(result.sq))
        => Close(result, distanceBruteForce(gmesh, pointAt(cell, dims, gridMin, gridMax)))

\* the box of the triangle and the boxes of a cell, per axis, in world
\* coordinates: the cell of sample x spans half a cell size on each side of
\* the sample (closed), or one cell size from the sample upwards (half-open)
cellSize(d, gMin, gMax, i) == RDiv(RSub(gMax[i], gMin[i]), R(d[i] - 1))
sampleAt(x2, d, gMin, gMax, i) ==
    \* the world coordinate of grid coordinate x2 / 2
    RAdd(gMin[i], RMul(Rat(x2, 2), cellSize(d, gMin, gMax, i)))
CentredCellMeets(c, box, d, gMin, gMax) ==
    \A i \in 1..3 :
       /\ RLeq(sampleAt(2 * c[i] - 1, d, gMin, gMax, i), box[2][i])
       /\ RLeq(box[1][i], sampleAt(2 * c[i] + 1, d, gMin, gMax, i))
CornerCellMeets(c, box, d, gMin, gMax) ==
    \A i \in 1..3 :
       /\ RLeq(sampleAt(2 * c[i], d, gMin, gMax, i), box[2][i])
       /\ RLess(box[1][i], sampleAt(2 * c[i] + 2, d, gMin, gMax, i))
Cells(d) == (0..(d[1] - 1)) \X (0..(d[2] - 1)) \X (0..(d[3] - 1))
TriangleBox(m, triangleIdx) ==
    LET v == TriangleVertices(m, triangleIdx)
    IN  getTriangleAABB(v[1], v[2], v[3])
Listed(triangleIdx, c) ==
    LET list == triangleLists[linearIndex(c, dims)]
    IN  \E k \in 1..Len(list) : list[k] = triangleIdx
\* createTriangleLists has returned (the lists do not change afterwards)
ListsBuilt == gpc = "ready" /\ triangleLists # <<>>

\* C2: after createTriangleLists, for every triangle t of the mesh and every
\* grid cell (x, y, z) whose box meets the bounding box of t, the list at
\* x + y*width + z*width*height contains t.
C2_IndexComplete ==
    ListsBuilt =>
        \A triangleIdx \in 0..(Len(gmesh.Triangles) - 1), c \in Cells(dims) :
            LET box == TriangleBox(gmesh, triangleIdx)
            IN  (\/ CentredCellMeets(c, box, dims, gridMin, gridMax)
                 \/ CornerCellMeets(c, box, dims, gridMin, gridMax))
                    => Listed(triangleIdx, c)
\* lists built on a grid that cuts the mesh, with a cell whose box meets one
\* triangle and whose list leaves another triangle out
C2_Witness ==
    /\ ListsBuilt /\ ~Encloses(gridMin, gridMax, gmesh)
    /\ \E t1, t2 \in 0..(Len(gmesh.Triangles) - 1), c \in Cells(dims) :
          /\ CentredCellMeets(c, TriangleBox(gmesh, t1), dims, gridMin, gridMax)
          /\ Listed(t1, c) /\ ~Listed(t2, c)

\* the triangles listed in the cells at most k cells away from the query
\* cell on every axis
ShellTriangles(k) ==
    { t \in 0..(Len(gmesh.Triangles) - 1) :
         \E c \in Cells(dims) :
            /\ \A i \in 1..3 : c[i] - cell[i] <= k /\ cell[i] - c[i] <= k
            /\ Listed(t, c) }

\* C22: distanceUsingList scans the shells k = 0, 1, 2, ... in increasing
\* order. A pass over shell k that meets no triangle does not return and
\* goes on to shell k + 1; a pass that meets a triangle returns, and it
\* returns after having visited every triangle of the shell (never in the
\* middle of it), except when it returns 0.0 at the exact-zero early exit.
C22_ShellOrder ==
    [][ (gpc = "scan" /\ triangleLists # <<>>) =>
          /\ visitedTriangles = {} /\ ~foundTriangles
          /\ IF ShellTriangles(layer) = {}
             THEN gpc' = "scan" /\ layer' = layer + 1 /\ result' = result
             ELSE /\ gpc' = "returned"
                  /\ \/ /\ IsZero(result') /\ layer' = layer
                        /\ visitedTriangles' # {}
                        /\ visitedTriangles' \subseteq ShellTriangles(layer)
                     \/ /\ visitedTriangles' = ShellTriangles(layer)
                        /\ layer' = layer + 1 /\ result' = minDistance' ]_vars
\* a query that passed an empty shell and returned after the next one, which
\* held several triangles in several cells
C22_Witness ==
    /\ gpc = "returned" /\ triangleLists # <<>> /\ layer >= 2
    /\ ShellTriangles(layer - 2) = {}
    /\ visitedTriangles = ShellTriangles(layer - 1)
    /\ Cardinality(visitedTriangles) >= 2
    /\ \E c1, c2 \in Cells(dims) :
          /\ c1 # c2
          /\ \E t \in visitedTriangles : Listed(t, c1) /\ ~Listed(t, c2)
          /\ \E t \in visitedTriangles : Listed(t, c2) /\ ~Listed(t, c1)

\* the cells one pass of the shell loops visits and the index of
\* triangleLists it reads for each.  In part_002 the parameters are
\* (width, height, depth) and calculate passes (width, height, depth)
shellReads(c, d, k) ==
    { [cell |-> shellCells(c, d, k)[j],
       index |-> linearIndex(shellCells(c, d, k)[j], d)] :
      j \in DOMAIN shellCells(c, d, k) }
\* In src/src/mesh.go the parameters are named (depth, height, width) and
\* calculate passes (width, height, depth): inside the function depth is the
\* grid's width and width the grid's depth
shellReadsSwapped(c, d, k) ==
    LET pdepth == d[1]
        pheight == d[2]
        pwidth == d[3]
    IN  { [cell |-> <<xx, yy, zz>>,
           index |-> xx + yy * pwidth + zz * (pwidth * pheight)] :
          xx \in IMax(0, c[1] - k)..IMin(c[1] + k, pwidth - 1),
          yy \in IMax(0, c[2] - k)..IMin(c[2] + k, pheight - 1),
          zz \in IMax(0, c[3] - k)..IMin(c[3] + k, pdepth - 1) }
\* the cells of the grid within k of c on every axis, each with the index
\* createTriangleLists filled for it
ClampedCube(c, d, k) ==
    { [cell |-> e, index |-> e[1] + e[2] * d[1] + e[3] * d[1] * d[2]] :
      e \in { f \in Cells(d) : \A i \in 1..3 : f[i] - c[i] <= k /\ c[i] - f[i] <= k } }

\* C30: on every grid, cubic or not, the pass of distanceUsingList for shell
\* `layer` around the query cell, in either version of the function as
\* calculate calls it, visits exactly the cells of the grid within `layer` of
\* the query cell and reads each at x + y*width + z*width*height
C30_ShellCellsOfGrid ==
    (gpc = "scan" /\ triangleLists # <<>>) =>
        /\ shellReads(cell, dims, layer) = ClampedCube(cell, dims, layer)
        /\ shellReadsSwapped(cell, dims, layer) = ClampedCube(cell, dims, layer)

\* the greatest of width, height, depth
MaxOf3(d) == IMax(d[1], IMax(d[2], d[3]))
\* the index exists and one of its cell lists is not empty
SomeListNonEmpty ==
    /\ triangleLists # <<>>
    /\ \E idx \in DOMAIN triangleLists : triangleLists[idx] # <<>>
\* the three vertices of the triangle lie in the box gridMin .. gridMax
InsideGridBox(m, triangleIdx, gMin, gMax) ==
    LET v == TriangleVertices(m, triangleIdx)
    IN  \A j \in 1..3, i \in 1..3 :
           ~RLess(v[j][i], gMin[i]) /\ ~RLess(gMax[i], v[j][i])
\* the shells the query has scanned: the return of 0.0 leaves the shell
\* before layer++
ShellsScanned == IF IsZero(result) THEN layer + 1 ELSE layer
ShellsBounded ==
    /\ (/\ triangleLists # <<>>
        /\ \E t \in 0..(Len(gmesh.Triangles) - 1) :
               InsideGridBox(gmesh, t, gridMin, gridMax)) => SomeListNonEmpty
    /\ SomeListNonEmpty =>
          /\ gpc = "scan" => layer < MaxOf3(dims)
          /\ gpc = "returned" => ShellsScanned <= MaxOf3(dims)

\* C28: with an index that has a non-empty cell list (as every index of a
\* mesh with a triangle inside the grid box has), each pass of the loop of
\* distanceUsingList returns or goes on to the next shell, the loop is never
\* at a shell beyond max(width, height, depth) - 1, and the query returns
\* after at most max(width, height, depth) shells
C28_ShellsBounded ==
    [][ /\ (gpc = "scan" /\ SomeListNonEmpty) =>
              (gpc' = "returned" \/ (gpc' = "scan" /\ layer' = layer + 1))
        /\ ShellsBounded' ]_vars
\* a query that needed every shell the bound allows
C28_Witness ==
    /\ gpc = "returned" /\ SomeListNonEmpty /\ ~IsZero(result)
    /\ ShellsScanned = MaxOf3(dims)

---------------------------------------------------------------------------
(* sameWindingOrder (mesh_fix.go).                                         *)

\* triangle[k % 3], k counted from 0
At(triangle, k) == triangle[(k % 3) + 1]
\* triangleB[(j+1)%3]
nextOf(triangle, j) == At(triangle, j + 1)
\* a plausible slip: the element before taken as the element after
prevOf_next(triangle, j) == At(triangle, j + 1)
\* triangleB[(j+2)%3]
prevOf(triangle, j) == At(triangle, j + 2)

\* the loop over triangleB: "true" / "false" at the first b == shared[0],
\* "none" when the loop ends without returning
RECURSIVE windInner(_, _, _, _)
windInner(tB, sh, j, forward) ==
    IF j > 2 THEN "none"
    ELSE IF At(tB, j) = sh[1]
         THEN IF forward
              THEN (IF nextOf(tB, j) = sh[2] THEN "true" ELSE "false")
              ELSE (IF prevOf(tB, j) = sh[2] THEN "true" ELSE "false")
         ELSE windInner(tB, sh, j + 1, forward)
\* the loop over triangleA
RECURSIVE windOuter(_, _, _, _)
windOuter(tA, tB, sh, i) ==
    IF i > 2 THEN "none"
    ELSE IF At(tA, i) = sh[1]
         THEN LET r == windInner(tB, sh, 0, nextOf(tA, i) # sh[2])
              IN  IF r # "none" THEN r ELSE windOuter(tA, tB, sh, i + 1)
         ELSE windOuter(tA, tB, sh, i + 1)
\* "should never be reached": return false
sameWindingOrder(tA, tB, sh) == windOuter(tA, tB, sh, 0) = "true"

WindVertices == 0..3
WindTriangles == WindVertices \X WindVertices \X WindVertices

WindArgs ==
    /\ wpc = "idle"
    /\ \E tA \in WindTriangles, tB \in WindTriangles, sh \in WindVertices \X WindVertices :
          triangleA' = tA /\ triangleB' = tB /\ shared' = sh
    /\ wpc' = "args"
    /\ UNCHANGED <<sameWinding, loadVars, distVars, gridVars, calcVars, quantVars, sizeVars, fixVars>>

WindEval ==
    /\ wpc = "args"
    /\ sameWinding' = sameWindingOrder(triangleA, triangleB, shared)
    /\ wpc' = "done"
    /\ UNCHANGED <<triangleA, triangleB, shared, loadVars, distVars, gridVars, calcVars, quantVars, sizeVars, fixVars>>

InitWind == LoadIdle /\ DistIdle /\ GridIdle /\ MoreIdle
NextWind == WindArgs \/ WindEval
SpecWind == InitWind /\ [][NextWind]_vars

\* the vertex indices of a triangle are pairwise distinct
DistinctVertices(t) == t[1] # t[2] /\ t[2] # t[3] /\ t[1] # t[3]
VertexSet(t) == {t[1], t[2], t[3]}
\* the triangles share exactly the edge {s0, s1}
SharesExactly(tA, tB, sh) ==
    /\ DistinctVertices(tA) /\ DistinctVertices(tB) /\ sh[1] # sh[2]
    /\ VertexSet(tA) \cap VertexSet(tB) = {sh[1], sh[2]}
\* t walks x -> y along its cyclic order
Walks(t, x, y) == \E k \in 0..2 : At(t, k) = x /\ At(t, k + 1) = y
OppositeDirections(tA, tB, sh) ==
    \/ Walks(tA, sh[1], sh[2]) /\ Walks(tB, sh[2], sh[1])
    \/ Walks(tA, sh[2], sh[1]) /\ Walks(tB, sh[1], sh[2])

\* C11: for triangles A and B with pairwise distinct vertex indices that
\* share exactly the edge {s0, s1}, sameWindingOrder(A, B, (s0, s1)) is true
\* iff A and B walk the shared edge in opposite directions; the result is the
\* same for the other order of the shared pair and with A and B swapped.
C11_WindingOpposite ==
    (wpc = "done" /\ SharesExactly(triangleA, triangleB, shared)) =>
        /\ sameWinding = OppositeDirections(triangleA, triangleB, shared)
        /\ sameWindingOrder(triangleA, triangleB, <<shared[2], shared[1]>>) = sameWinding
        /\ sameWindingOrder(triangleB, triangleA, shared) = sameWinding
\* TestSameWind: (0,1,2) and (3,2,1) with shared edge (2,1) are consistent
C11_Witness ==
    /\ wpc = "done" /\ triangleA = <<0, 1, 2>> /\ triangleB = <<3, 2, 1>>
    /\ shared = <<2, 1>> /\ sameWinding
    /\ SharesExactly(triangleA, triangleB, shared)

---------------------------------------------------------------------------
(* fixTriangle (mesh_fix.go): the adjacency and winding pass.              *)

MaxCPU == 3
MaxTriangles == 3

\* the loops of isAdjacent over the pairs (va, vb), k = 3*i + j
RECURSIVE isAdjacentLoop(_, _, _, _, _)
isAdjacentLoop(a, b, k, count, sh) ==
    IF k > 8 THEN [adjacent |-> count = 2, shared |-> sh]
    ELSE LET va == At(a, k \div 3)
             vb == At(b, k % 3)
         IN  IF va = vb
             THEN isAdjacentLoop(a, b, k + 1, count + 1,
                                 IF count < 2 THEN [sh EXCEPT ![count + 1] = va]
                                 ELSE sh)
             ELSE isAdjacentLoop(a, b, k + 1, count, sh)
isAdjacent(a, b) == isAdjacentLoop(a, b, 0, 0, <<0, 0>>)

\* the slice mesh.Triangles[a:b] goroutine i is started with
sliceOf(i, len, n) == [lo |-> i * (len \div n), hi |-> (i + 1) * (len \div n)]

\* a strip of three triangles and one triangle apart from it
FixTriangleSet == {<<0, 1, 2>>, <<1, 3, 2>>, <<2, 3, 4>>, <<5, 6, 7>>}
RECURSIVE SeqsOf(_, _)
SeqsOf(S, len) ==
    IF len = 0 THEN {<<>>}
    ELSE { Append(q, t) : q \in SeqsOf(S, len - 1), t \in S }
FixMeshes == UNION { SeqsOf(FixTriangleSet, len) : len \in 0..MaxTriangles }

\* fixTriangle up to the start of the goroutines
FixStart ==
    /\ fpc = "idle"
    /\ \E m \in FixMeshes, n \in 1..MaxCPU :
          /\ meshTriangles' = m /\ numCPU' = n
          /\ fworker' = [i \in 0..(n - 1) |->
                            [lo |-> sliceOf(i, Len(m), n).lo,
                             hi |-> sliceOf(i, Len(m), n).hi,
                             k |-> 0, at |-> "loop"]]
          /\ fwg' = n
    /\ fpc' = "run"
    /\ UNCHANGED <<examined, disconnected, inverted>>
    /\ UNCHANGED <<loadVars, distVars, gridVars, windVars, calcVars, quantVars, sizeVars>>

\* one pass of `for a, triangleA := range mesh.Triangles[a:b]` in goroutine
\* i: a is the index k inside the slice, triangleA the element lo + k of
\* mesh.Triangles; the inner loop skips the b equal to a
FixTriangleA(i) ==
    /\ fpc = "run" /\ i \in DOMAIN fworker
    /\ fworker[i].at = "loop" /\ fworker[i].lo + fworker[i].k < fworker[i].hi
    /\ LET a == fworker[i].k
           index == fworker[i].lo + a
           tA == meshTriangles[index + 1]
           with == { b \in 0..(Len(meshTriangles) - 1) : a # b }
           adjacent == { b \in with : isAdjacent(tA, meshTriangles[b + 1]).adjacent }
       IN  /\ examined' = Append(examined, [index |-> index, with |-> with])
           /\ inverted' = inverted \cup
                 { <<b, a>> : b \in { c \in adjacent :
                       ~sameWindingOrder(tA, meshTriangles[c + 1],
                                         isAdjacent(tA, meshTriangles[c + 1]).shared) } }
           /\ disconnected' = IF adjacent = {} THEN Append(disconnected, index)
                              ELSE disconnected
    /\ fworker' = [fworker EXCEPT ![i].k = @ + 1]
    /\ UNCHANGED <<fpc, meshTriangles, numCPU, fwg>>
    /\ UNCHANGED <<loadVars, distVars, gridVars, windVars, calcVars, quantVars, sizeVars>>

\* the range is exhausted: wg.Done()
FixWorkerDone(i) ==
    /\ fpc = "run" /\ i \in DOMAIN fworker
    /\ fworker[i].at = "loop" /\ fworker[i].lo + fworker[i].k >= fworker[i].hi
    /\ fworker' = [fworker EXCEPT ![i].at = "done"]
    /\ fwg' = fwg - 1
    /\ UNCHANGED <<fpc, meshTriangles, numCPU, examined, disconnected, inverted>>
    /\ UNCHANGED <<loadVars, distVars, gridVars, windVars, calcVars, quantVars, sizeVars>>

\* wg.Wait() returns; return true
FixJoin ==
    /\ fpc = "run" /\ fwg = 0
    /\ fpc' = "done"
    /\ UNCHANGED <<meshTriangles, numCPU, fworker, fwg, examined, disconnected, inverted>>
    /\ UNCHANGED <<loadVars, distVars, gridVars, windVars, calcVars, quantVars, sizeVars>>

InitFix == LoadIdle /\ DistIdle /\ GridIdle /\ MoreIdle
NextFix ==
    \/ FixStart
    \/ \E i \in 0..(MaxCPU - 1) : FixTriangleA(i)
    \/ \E i \in 0..(MaxCPU - 1) : FixWorkerDone(i)
    \/ FixJoin
SpecFix == InitFix /\ [][NextFix]_vars

\* some other triangle of the mesh is adjacent to triangle g
HasNeighbour(g) ==
    \E b \in 0..(Len(meshTriangles) - 1) :
        b # g /\ isAdjacent(meshTriangles[g + 1], meshTriangles[b + 1]).adjacent
TimesIn(q, x) == Cardinality({ j \in DOMAIN q : q[j] = x })

\* C27: when fixTriangle returns, every triangle of the mesh has been
\* examined exactly once, each examined triangle has been compared with every
\* triangle of the mesh but itself, and the disconnected-triangle warning has
\* been printed for a triangle iff no other triangle is adjacent to it
C27_EveryTriangleExamined ==
    fpc = "done" =>
        /\ \A g \in 0..(Len(meshTriangles) - 1) :
              /\ Cardinality({ j \in DOMAIN examined : examined[j].index = g }) = 1
              /\ (TimesIn(disconnected, g) > 0) <=> ~HasNeighbour(g)
        /\ \A j \in DOMAIN examined :
              examined[j].with = (0..(Len(meshTriangles) - 1)) \ {examined[j].index}

---------------------------------------------------------------------------
(* calculate: the parallel evaluation of the distance field.  One goroutine *)
(* per z-slice; a step of a goroutine is one pass of its innermost loop or  *)
(* its locked section.  Field values are floats given by sign and square;  *)
(* the square of the smallest subnormal is the mark smallSq.                *)

smallSq == <<1, -1>>
negSmallfloat64 == [sgn |-> -1, sq |-> smallSq]
posSmallfloat64 == [sgn |-> 1, sq |-> smallSq]

\* |x| < |y| on squares: 0 < smallSq < every other positive square < sentinel
MagLess(a, b) ==
    IF a = b THEN FALSE
    ELSE IF IsBig(a) THEN FALSE
    ELSE IF IsBig(b) THEN TRUE
    ELSE IF a = R(0) THEN TRUE
    ELSE IF b = R(0) THEN FALSE
    ELSE IF a = smallSq THEN TRUE
    ELSE IF b = smallSq THEN FALSE
    ELSE RLess(a, b)
\* the sign of a float: 0 for +0.0 and -0.0
vSign(d) == IF d.sq = R(0) THEN 0 ELSE d.sgn
\* d < e on floats
vLess(d, e) ==
    IF vSign(d) # vSign(e) THEN vSign(d) < vSign(e)
    ELSE IF vSign(d) > 0 THEN MagLess(d.sq, e.sq)
    ELSE IF vSign(d) < 0 THEN MagLess(e.sq, d.sq)
    ELSE FALSE
vLeq(d, e) == ~vLess(e, d)
\* vec.Min / vec.Max on such floats
vMin(a, b) == IF vLess(a, b) THEN a ELSE b
vMax(a, b) == IF vLess(b, a) THEN a ELSE b

\* distanceUsingList as a whole: the shells 0, 1, 2, ... until one holds a
\* triangle.  (With every list empty the loop of the code does not end; the
\* grids here all hold triangles, and the shells past the grid are cut off.)
RECURSIVE shellsFrom(_, _, _, _, _, _, _)
shellsFrom(m, p, lists, c, d, k, st) ==
    IF st.zero THEN CopysignSqrt(R(0), 1)
    ELSE IF st.found \/ k > d[1] + d[2] + d[3] THEN st.min
    ELSE CHOOSE r \in { shellsFrom(m, p, lists, c, d, k + 1, nx) :
                        nx \in {scanShell(m, p, lists, c, d, k, st)} } : TRUE
distanceUsingList(m, p, lists, c, d) ==
    shellsFrom(m, p, lists, c, d, 0,
               [min |-> posBigDistance, visited |-> {}, found |-> FALSE, zero |-> FALSE])

\* d of calculate at cell c.  With a dimension of 1 the scale of that axis is
\* x / 0 (+Inf, or NaN for 0 / 0) and the coordinate 0 * scale + bias is NaN:
\* every comparison of distance with it is false, the edge branch returns NaN,
\* |NaN| < |minDistance| is false, and the query returns posBigfloat64.
sampleDistance(m, d, gMin, gMax, lists, c) ==
    IF \E i \in 1..3 : d[i] < 2 THEN posBigDistance
    ELSE CHOOSE r \in { distanceUsingList(m, p, lists, c, d) :
                        p \in {pointAt(c, d, gMin, gMax)} } : TRUE

\* sqrt(a) + sqrt(b) > sqrt(c) for squares a, b > 0 and c >= 0
SumSqrtExceeds(a, b, c) ==
    LET r == RSub(RSub(c, a), b)
    IN  r[1] < 0 \/ RLess(RMul(r, r), RMul(R(4), RMul(a, b)))
\* math.Abs(previousValue-d) > math.Sqrt(2.0)*pointScale[0], signs opposite
farApart(prev, d, scale0) ==
    IsBig(prev.sq) \/ IsBig(d.sq)
      \/ SumSqrtExceeds(prev.sq, d.sq, RMul(R(2), RMul(scale0, scale0)))
\* the sign hack: d = math.Copysign(d, previousValue)
fixSign(prev, d, scale0) ==
    IF /\ prev # posBigDistance
       /\ ~IsZero(d)
       /\ vSign(prev) * vSign(d) < 0
       /\ farApart(prev, d, scale0)
    THEN [sgn |-> prev.sgn, sq |-> d.sq]
    ELSE d

\* a plausible slip: the slice stride taken as width
dataIndex_width(x, y, z, d) == x + y * d[1] + z * d[1]
\* x+y*width+z*width*height
dataIndex(x, y, z, d) == x + y * d[1] + z * d[1] * d[2]

\* a plausible slip: the shared bound overwritten without the comparison
mergeMin_assign(minDi, sharedMin) == minDi
\* the same slip for the upper bound
mergeMax_assign(maxDi, sharedMax) == maxDi
\* if minDi < minD { minD = minDi }
mergeMin(minDi, sharedMin) == IF vLess(minDi, sharedMin) THEN minDi ELSE sharedMin
\* if maxDi > maxD { maxD = maxDi }
mergeMax(maxDi, sharedMax) == IF vLess(sharedMax, maxDi) THEN maxDi ELSE sharedMax

\* maxSize := 0.5 * vec.Length(vec.Sub(gridMax, gridMin))
maxSize(gMin, gMax) ==
    CopysignSqrt(RDiv(Dot2(Sub(gMax, gMin)), R(4)), 1)

\* a watertight mesh with two zero-area faces: the tetrahedron and the
\* vertices 4, 5, 6 walked both ways, 4 and 5 at the same place
SliverMesh ==
    [Vertices |-> Tetrahedron.Vertices \o
                  <<RVec(<<0, 0, 0>>), RVec(<<0, 0, 0>>), RVec(<<2, 2, 2>>)>>,
     Triangles |-> Tetrahedron.Triangles \o <<Tri(4, 5, 6), Tri(6, 5, 4)>>]
CalcMeshes == {Tetrahedron, SliverMesh}
\* the mesh box, and the mesh box with a border of 1
CalcBoxes(m) ==
    LET b == meshBounds(m)
        one == RVec(<<1, 1, 1>>)
    IN  { <<b[1], b[2]>>, <<Sub(b[1], one), Add(b[2], one)>> }

MaxCalcDim == 2

\* the grids: every grid of dimensions up to MaxCalcDim, and grids of 100
\* samples: 5 x 10 x 2, and 1 x 50 x 2 with a width below 2
SmallGrids == (1..MaxCalcDim) \X (1..MaxCalcDim) \X (1..MaxCalcDim)
CalcCases ==
    { [m |-> m, box |-> box, d |-> d] :
         m \in CalcMeshes, box \in UNION {CalcBoxes(k) : k \in CalcMeshes},
         d \in SmallGrids \cup {<<5, 10, 2>>, <<1, 50, 2>>} }
CalcInputs ==
    { c \in CalcCases :
         /\ c.box \in CalcBoxes(c.m)
         /\ \/ c.d \in SmallGrids
            \/ /\ c.d = <<5, 10, 2>>
               /\ (c.m = SliverMesh) <=> (c.box[1] = meshBounds(c.m)[1])
            \/ /\ c.d = <<1, 50, 2>>
               /\ c.m = Tetrahedron /\ c.box[1] = meshBounds(c.m)[1] }

\* progressStep := int32(width * height * depth / 100)
progressStep(d) == (d[1] * d[2] * d[3]) \div 100
\* printStep := len(data) / 100
printStep(n) == n \div 100

\* a plausible slip: wg.Add(1) called by the goroutine and not before "go",
\* so that Wait can see a counter that misses a goroutine
wgAdded_inside(depth) == depth - 1
\* the counter after "for z := range depth { wg.Add(1); go ... }"
wgAdded(depth) == depth

\* calculate up to the start of the goroutines.  queried holds the value
\* mesh.distanceUsingList returns at each cell: it depends on the mesh, the
\* grid and the lists only, which nothing changes while the goroutines run.
CalcStart ==
    /\ cpc = "idle"
    /\ \E c \in CalcInputs :
          LET w == c.d[1]
              h == c.d[2]
              d == c.d[3]
          IN \E lists \in {createTriangleLists(c.m, c.d, c.box[1], c.box[2])} :
             /\ gmesh' = c.m /\ dims' = c.d
             /\ gridMin' = c.box[1] /\ gridMax' = c.box[2]
             /\ triangleLists' = lists
             /\ queried' = [i \in 0..(w * h * d - 1) |->
                              sampleDistance(c.m, c.d, c.box[1], c.box[2], lists,
                                             cellOf(i, c.d))]
             /\ data' = [i \in 0..(w * h * d - 1) |-> CopysignSqrt(R(0), 1)]
             /\ writes' = [i \in 0..(w * h * d - 1) |-> <<>>]
             /\ worker' = [z \in 0..(d - 1) |->
                             [at |-> "check", x |-> 0, y |-> 0,
                              minDi |-> negSmallfloat64, maxDi |-> posSmallfloat64,
                              previousValue |-> posBigDistance]]
             /\ wg' = wgAdded(d)
    /\ minD' = negSmallfloat64 /\ maxD' = posSmallfloat64
    /\ progress' = 0 /\ mu' = -1 /\ mergeOrder' = <<>>
    /\ cpc' = "run"
    /\ UNCHANGED <<gpc, cell, layer, visitedTriangles, foundTriangles, minDistance,
                   result>>
    /\ UNCHANGED <<loadVars, distVars, windVars, quantVars, sizeVars, fixVars>>

\* "if progress%progressStep == 0 { fmt.Printf(...) }" in goroutine z: a plain
\* read of progress; the remainder by a zero progressStep is a run-time panic,
\* which ends the program
WorkerCheck(z) ==
    /\ cpc = "run" /\ z \in DOMAIN worker /\ worker[z].at = "check"
    /\ IF progressStep(dims) = 0
       THEN cpc' = "panic" /\ UNCHANGED worker
       ELSE worker' = [worker EXCEPT ![z].at = "loop"] /\ UNCHANGED cpc
    /\ UNCHANGED <<data, writes, minD, maxD, queried, progress, mu, wg, mergeOrder>>
    /\ UNCHANGED <<loadVars, distVars, gridVars, windVars, quantVars, sizeVars, fixVars>>

\* the rest of one pass of "for x := range width" in goroutine z:
\* atomic.AddInt32(&progress, 1), the sample, the sign hack, the write
WorkerCell(z) ==
    /\ cpc = "run" /\ z \in DOMAIN worker /\ worker[z].at = "loop"
    /\ progress' = progress + 1
    /\ LET me == worker[z]
           scale0 == RDiv(RSub(gridMax[1], gridMin[1]), R(dims[1] - 1))
       IN  \E d \in { fixSign(me.previousValue, d1s, scale0) :
                      d1s \in {queried[dataIndex(me.x, me.y, z, dims)]} } :
              /\ data' = [data EXCEPT ![dataIndex(me.x, me.y, z, dims)] = d]
              /\ writes' = [writes EXCEPT ![dataIndex(me.x, me.y, z, dims)] =
                                               Append(@, z)]
              /\ worker' = [worker EXCEPT ![z] =
                    [at |-> IF me.x + 1 >= dims[1] /\ me.y + 1 >= dims[2]
                            THEN "lock" ELSE "check",
                     x |-> IF me.x + 1 < dims[1] THEN me.x + 1 ELSE 0,
                     y |-> IF me.x + 1 < dims[1] THEN me.y ELSE me.y + 1,
                     minDi |-> IF vLess(d, me.minDi) THEN d ELSE me.minDi,
                     maxDi |-> IF vLess(me.maxDi, d) THEN d ELSE me.maxDi,
                     previousValue |-> IF me.x + 1 < dims[1] THEN d
                                       ELSE posBigDistance]]
    /\ UNCHANGED <<cpc, minD, maxD, queried, mu, wg, mergeOrder>>
    /\ UNCHANGED <<loadVars, distVars, gridVars, windVars, quantVars, sizeVars, fixVars>>

\* mu.Lock()
WorkerLock(z) ==
    /\ cpc = "run" /\ z \in DOMAIN worker /\ worker[z].at = "lock"
    /\ mu = -1
    /\ mu' = z
    /\ worker' = [worker EXCEPT ![z].at = "merge"]
    /\ UNCHANGED <<cpc, data, writes, minD, maxD, queried, progress, wg, mergeOrder>>
    /\ UNCHANGED <<loadVars, distVars, gridVars, windVars, quantVars, sizeVars, fixVars>>

\* the locked section, mu.Unlock() and wg.Done()
WorkerMerge(z) ==
    /\ cpc = "run" /\ z \in DOMAIN worker /\ worker[z].at = "merge"
    /\ minD' = mergeMin(worker[z].minDi, minD)
    /\ maxD' = mergeMax(worker[z].maxDi, maxD)
    /\ mu' = -1
    /\ wg' = wg - 1
    /\ mergeOrder' = Append(mergeOrder, z)
    /\ worker' = [worker EXCEPT ![z].at = "done"]
    /\ UNCHANGED <<cpc, data, writes, queried, progress>>
    /\ UNCHANGED <<loadVars, distVars, gridVars, windVars, quantVars, sizeVars, fixVars>>

\* wg.Wait() returns; the bounds are clamped to the size of the grid
CalcJoin ==
    /\ cpc = "run"
    /\ wg = 0
    /\ minD' = vMax(minD, Negate(maxSize(gridMin, gridMax)))
    /\ maxD' = vMin(maxD, maxSize(gridMin, gridMax))
    /\ cpc' = "done"
    /\ UNCHANGED <<data, writes, worker, queried, progress, mu, wg, mergeOrder>>
    /\ UNCHANGED <<loadVars, distVars, gridVars, windVars, quantVars, sizeVars, fixVars>>

\* the goroutines of the model: the grids above have a depth of at most 2
\* beyond the small ones
CalcWorkers == 0..(MaxCalcDim - 1)

InitCalc == LoadIdle /\ DistIdle /\ GridIdle /\ MoreIdle
NextCalc ==
    \/ CalcStart
    \/ \E z \in CalcWorkers : WorkerCheck(z)
    \/ \E z \in CalcWorkers : WorkerCell(z)
    \/ \E z \in CalcWorkers : WorkerLock(z)
    \/ \E z \in CalcWorkers : WorkerMerge(z)
    \/ CalcJoin
SpecCalc == InitCalc /\ [][NextCalc]_vars

---------------------------------------------------------------------------
(* Claims on the parallel phase of calculate.                              *)

\* the cells goroutine z writes
SliceOf(z) ==
    { dataIndex(x, y, z, dims) : x \in 0..(dims[1] - 1), y \in 0..(dims[2] - 1) }

\* C12: every cell of the field is written exactly once and by exactly one
\* worker: the slices of the workers are pairwise disjoint and cover all
\* width*height*depth cells, no cell is written a second time while the
\* workers run, and after the join every cell has its one write, made by the
\* worker of its z.
C12_WrittenOnce ==
    cpc # "idle" =>
        /\ \A z1, z2 \in DOMAIN worker : z1 # z2 => SliceOf(z1) \cap SliceOf(z2) = {}
        /\ UNION { SliceOf(z) : z \in DOMAIN worker } = 0..(dims[1] * dims[2] * dims[3] - 1)
        /\ \A i \in DOMAIN writes :
              /\ Len(writes[i]) <= 1
              /\ Len(writes[i]) = 1 => writes[i][1] = i \div (dims[1] * dims[2])
              /\ cpc = "done" => Len(writes[i]) = 1
\* two workers are both inside their loops, each with a cell written
C12_Witness ==
    /\ cpc = "run"
    /\ \E z1, z2 \in DOMAIN worker :
          /\ z1 # z2
          /\ worker[z1].at = "loop" /\ worker[z2].at = "loop"
          /\ \E i \in SliceOf(z1) : Len(writes[i]) = 1
          /\ \E i \in SliceOf(z2) : Len(writes[i]) = 1

\* the samples of the field, and the order of floats on them
Samples == { data[i] : i \in DOMAIN data }
vEq(d, e) == ~vLess(d, e) /\ ~vLess(e, d)
Least(S) == CHOOSE v \in S : \A u \in S : vLeq(v, u)
Greatest(S) == CHOOSE v \in S : \A u \in S : vLeq(u, v)

\* C13 as stated: minD and maxD are the minimum and the maximum of the
\* samples: minD <= every sample <= maxD and each is attained by a sample.
\* (Stated for grids of dimensions >= 2 whose samples are all finite.)
C13_MinMaxOfSamples ==
    (/\ cpc = "done"
     /\ \A i \in 1..3 : dims[i] >= 2
     /\ \A v \in Samples : ~IsBig(v.sq)) =>
        /\ \A v \in Samples : vLeq(minD, v) /\ vLeq(v, maxD)
        /\ \E v \in Samples : vEq(v, minD)
        /\ \E v \in Samples : vEq(v, maxD)
\* C13, amended: minD is the least of the samples and negSmallfloat64, raised
\* to -maxSize when it lies below; maxD is the greatest of the samples and
\* posSmallfloat64, lowered to maxSize when it lies above (maxSize is half the
\* diagonal of the grid box).
C13_MinMaxClamped ==
    cpc = "done" =>
        LET lo == Least(Samples \cup {negSmallfloat64})
            hi == Greatest(Samples \cup {posSmallfloat64})
            size == maxSize(gridMin, gridMax)
        IN  /\ vEq(minD, IF vLess(lo, Negate(size)) THEN Negate(size) ELSE lo)
            /\ vEq(maxD, IF vLess(size, hi) THEN size ELSE hi)
\* two workers with different negative minima have merged, the lower one
\* lies below -maxSize and minD is -maxSize; the greatest sample lies between
\* posSmallfloat64 and maxSize and is maxD
C13_Witness ==
    /\ cpc = "done" /\ \A i \in 1..3 : dims[i] >= 2
    /\ \E z1, z2 \in DOMAIN worker :
          /\ vLess(worker[z1].minDi, worker[z2].minDi)
          /\ vLess(worker[z2].minDi, negSmallfloat64)
          /\ vLess(worker[z1].minDi, Negate(maxSize(gridMin, gridMax)))
          /\ vLess(posSmallfloat64, worker[z1].maxDi)
          /\ maxD = worker[z1].maxDi
    /\ vEq(minD, Negate(maxSize(gridMin, gridMax)))
    /\ vLess(maxD, maxSize(gridMin, gridMax))

\* C16: a grid with a dimension smaller than 2 is rejected before any
\* distance is computed or any output is produced.
C16_SmallDimensionRejected ==
    (cpc # "idle" /\ \E i \in DOMAIN writes : writes[i] # <<>>)
        => \A k \in 1..3 : dims[k] >= 2

\* the face normal of triangle triangleIdx is 0
ZeroArea(m, triangleIdx) ==
    LET v == TriangleVertices(m, triangleIdx)
    IN  Cross(Sub(v[2], v[1]), Sub(v[1], v[3])) = RVec(<<0, 0, 0>>)
\* what a division by zero leaves in a float: not a number
IsNaN(a) == a = <<0, 0>>

C23_FieldIsQueryResult ==
    (cpc # "idle" /\ \A k \in 1..3 : dims[k] >= 2) =>
        \A i \in DOMAIN data :
           writes[i] # <<>> => data[i] = queried[i]

\* the field a single goroutine running the rows one after the other
\* stores: the query result with the sign correction along the row
RECURSIVE rowValue(_, _, _)
rowValue(x, y, z) ==
    fixSign(IF x = 0 THEN posBigDistance ELSE rowValue(x - 1, y, z),
            queried[x + y * dims[1] + z * dims[1] * dims[2]],
            RDiv(RSub(gridMax[1], gridMin[1]), R(dims[1] - 1)))
SequentialData ==
    [i \in DOMAIN queried |->
        rowValue(cellOf(i, dims)[1], cellOf(i, dims)[2], cellOf(i, dims)[3])]
SequentialMinD ==
    LET lo == Least({SequentialData[i] : i \in DOMAIN queried} \cup {negSmallfloat64})
        size == maxSize(gridMin, gridMax)
    IN  IF vLess(lo, Negate(size)) THEN Negate(size) ELSE lo
SequentialMaxD ==
    LET hi == Greatest({SequentialData[i] : i \in DOMAIN queried} \cup {posSmallfloat64})
        size == maxSize(gridMin, gridMax)
    IN  IF vLess(size, hi) THEN size ELSE hi

\* C24: for a given mesh, grid and settings, the field, minD and maxD that
\* calculate has after the join are the same for every interleaving and every
\* completion order of the goroutines: they are the values one goroutine
\* running the slices one after the other computes (the conversion to
\* outputData is a sequential function of these three).
C24_ScheduleIndependent ==
    (cpc = "done" /\ \A k \in 1..3 : dims[k] >= 2) =>
        /\ data = SequentialData
        /\ vEq(minD, SequentialMinD)
        /\ vEq(maxD, SequentialMaxD)
\* the goroutine of the last slice merged first; its bounds differ from the
\* other's in both minDi and maxDi
C24_Witness ==
    /\ cpc = "done" /\ \A k \in 1..3 : dims[k] >= 2
    /\ mergeOrder = <<1, 0>>
    /\ vLess(worker[1].minDi, worker[0].minDi)
    /\ vLess(worker[0].maxDi, worker[1].maxDi)
    /\ vEq(maxD, worker[1].maxDi)

\* every goroutine has left its locked section and called wg.Done()
AllWorkersDone == \A z \in DOMAIN worker : worker[z].at = "done"

\* C25: the clamp of minD / maxD (and the conversion loop after it) runs
\* only after wg.Wait: when it runs, every goroutine has written all cells of
\* its slice and merged its minDi / maxDi; and once all goroutines have
\* finished, the counter of the wait group is zero and the mutex is free, so
\* that wg.Wait returns and the join is reached.
C25_JoinAfterWorkers ==
    [][ /\ (cpc = "run" /\ cpc' = "done") =>
              /\ AllWorkersDone
              /\ \A i \in DOMAIN writes : Len(writes[i]) = 1
              /\ Len(mergeOrder) = dims[3]
              /\ \A z \in DOMAIN worker :
                    vLeq(minD, worker[z].minDi) /\ vLeq(worker[z].maxDi, maxD)
        /\ (cpc' = "run" /\ AllWorkersDone') => (wg' = 0 /\ mu' = -1) ]_vars
\* the join of a run on a grid of 100 samples with two goroutines
C25_Witness ==
    /\ cpc = "done" /\ wg = 0 /\ Len(mergeOrder) = 2
    /\ DOMAIN writes = 0..99
    /\ \A i \in DOMAIN writes : Len(writes[i]) = 1

\* the accesses to shared variables the next step of goroutine z makes:
\* the variable, read or write, and how the access is synchronised
accessesOf(z) ==
    LET me == worker[z]
    IN  IF me.at = "check"
        THEN { [loc |-> <<"progress", 0>>, kind |-> "read", sync |-> "plain"] }
        ELSE IF me.at = "loop"
        THEN { [loc |-> <<"progress", 0>>, kind |-> "write", sync |-> "atomic"],
               [loc |-> <<"data", dataIndex(me.x, me.y, z, dims)>>,
                kind |-> "write", sync |-> "plain"] }
        ELSE IF me.at = "merge"
        THEN { [loc |-> <<v, 0>>, kind |-> k, sync |-> "mutex"] :
                  v \in {"minD", "maxD"}, k \in {"read", "write"} }
        ELSE {}
\* two accesses of different goroutines that conflict and are not ordered:
\* same variable, one of them a write, and not both atomic or both made
\* with the mutex held
Races(a1, a2) ==
    /\ a1.loc = a2.loc
    /\ a1.kind = "write" \/ a2.kind = "write"
    /\ ~(a1.sync = "atomic" /\ a2.sync = "atomic")
    /\ ~(a1.sync = "mutex" /\ a2.sync = "mutex")

\* C26: while the goroutines run, minD and maxD are accessed only with the
\* mutex held (by one goroutine at a time), and no other shared variable,
\* the progress counter included, is written by one goroutine and read or
\* written by another without synchronisation.
C26_NoUnsynchronisedSharing ==
    cpc = "run" =>
        /\ \A z \in DOMAIN worker : worker[z].at = "merge" <=> mu = z
        /\ \A z1, z2 \in DOMAIN worker :
              z1 # z2 =>
                 \A a1 \in accessesOf(z1), a2 \in accessesOf(z2) : ~Races(a1, a2)

\* C29: calculate runs to completion without a run-time fault on every grid
\* of dimensions >= 2, also with fewer than 100 samples: no remainder by a
\* zero progressStep (or printStep) is taken.
C29_NoZeroDivisor ==
    (\A k \in 1..3 : dims[k] >= 2) => cpc # "panic"

---------------------------------------------------------------------------
(* calculate: the conversion loop, for one sample v of data.               *)

\* 65535.0 or 255: the clamp bound of the conversion
scaleOf(bits) == IF bits = 16 THEN 65535 ELSE 255
\* a plausible slip: the number of levels taken for the factor
quantFactor_levels(bits) == IF bits = 16 THEN 65536 ELSE 256
\* the factor of v*65535.0, v*255
quantFactor(bits) == IF bits = 16 THEN 65535 ELSE 255
\* a plausible slip: always rounded down
quantRound_floor(negative, x) == RFloor(x)
\* math.Floor when the value was negative, math.Ceil otherwise
quantRound(negative, x) == IF negative THEN RFloor(x) ELSE RCeil(x)

\* the integer t stored for v
quantize(v, lo, hi, bits) ==
    LET negative == RLess(v, R(0))
        u == RDiv(RSub(v, lo), RSub(hi, lo))
        r == quantRound(negative, RMul(u, R(quantFactor(bits))))
    IN  IMax(0, IMin(r, scaleOf(bits)))
\* the bytes of t: one byte, or two in little endian
bytesOf(t, bits) ==
    IF bits = 16 THEN <<t % 256, (t \div 256) % 256>> ELSE <<t % 256>>
\* the sample a reader takes from the bytes
sampleOf(bytes) == IF Len(bytes) = 2 THEN bytes[1] + 256 * bytes[2] ELSE bytes[1]
\* unpack.glsl: d * (distance_max - distance_min) + distance_min, d = sample/scale
dequantize(sample, lo, hi, bits) ==
    RAdd(RMul(Rat(sample, scaleOf(bits)), RSub(hi, lo)), lo)

MaxQuarter == 12
\* the samples: the multiples of 1/4 up to MaxQuarter/4 in absolute value
QuantValues == { Rat(k, 4) : k \in (-MaxQuarter)..MaxQuarter }
QuantMins == { Rat(-5, 2), R(-1), Rat(-1, 3) }
QuantMaxs == { Rat(1, 4), R(1), Rat(7, 3) }

QuantArgs ==
    /\ qpc = "idle"
    /\ \E v \in QuantValues, lo \in QuantMins, hi \in QuantMaxs, bits \in {8, 16} :
          qv' = v /\ qminD' = lo /\ qmaxD' = hi /\ qbits' = bits
    /\ qpc' = "args"
    /\ UNCHANGED <<outputData, loadVars, distVars, gridVars, windVars, calcVars, sizeVars, fixVars>>

\* one pass of "for i, v := range data"
Quantize ==
    /\ qpc = "args"
    /\ outputData' = bytesOf(quantize(qv, qminD, qmaxD, qbits), qbits)
    /\ qpc' = "done"
    /\ UNCHANGED <<qv, qminD, qmaxD, qbits, loadVars, distVars, gridVars, windVars,
                   calcVars, sizeVars, fixVars>>

InitQuant == LoadIdle /\ DistIdle /\ GridIdle /\ MoreIdle
NextQuant == QuantArgs \/ Quantize
SpecQuant == InitQuant /\ [][NextQuant]_vars

\* u*scale of the claims, and the stored integer being its floor or ceiling
\* clamped into [0, scale]
Normalized(v, lo, hi, bits) ==
    RMul(RDiv(RSub(v, lo), RSub(hi, lo)), R(IF bits = 16 THEN 65535 ELSE 255))
IsClampedFloor(t, x, scale) ==
    \/ t = 0 /\ RLess(x, R(1))
    \/ t = scale /\ RLeq(R(scale), x)
    \/ 0 < t /\ t < scale /\ RLeq(R(t), x) /\ RLess(x, R(t + 1))
IsClampedCeil(t, x, scale) ==
    \/ t = 0 /\ RLeq(x, R(0))
    \/ t = scale /\ RLess(R(scale - 1), x)
    \/ 0 < t /\ t < scale /\ RLess(R(t - 1), x) /\ RLeq(x, R(t))
InRangeOfField == RLeq(qminD, qv) /\ RLeq(qv, qmaxD)
IsWhole(x) == x[2] = 1

\* C14: the stored integer is floor(u*scale) when v is negative and
\* ceil(u*scale) when v is non-negative, clamped into [0, scale]; so for
\* minD <= v <= maxD the recovered value is <= v when v < 0 and >= v when
\* v >= 0.
C14_SignBiasedRounding ==
    qpc = "done" =>
        LET t == sampleOf(outputData)
            scale == IF qbits = 16 THEN 65535 ELSE 255
            x == Normalized(qv, qminD, qmaxD, qbits)
            back == dequantize(t, qminD, qmaxD, qbits)
        IN  /\ Len(outputData) = (IF qbits = 16 THEN 2 ELSE 1)
            /\ IF RLess(qv, R(0)) THEN IsClampedFloor(t, x, scale)
                                  ELSE IsClampedCeil(t, x, scale)
            /\ InRangeOfField =>
                  IF RLess(qv, R(0)) THEN RLeq(back, qv) ELSE RLeq(qv, back)
\* a negative sample inside the range, 16 bits, rounded down to a value that
\* needs both bytes
C14_Witness ==
    /\ qpc = "done" /\ qbits = 16 /\ RLess(qv, R(0)) /\ InRangeOfField
    /\ ~IsWhole(Normalized(qv, qminD, qmaxD, qbits))
    /\ outputData[2] > 0
    /\ RLess(dequantize(sampleOf(outputData), qminD, qmaxD, qbits), qv)

\* C15: for minD <= v <= maxD, dequantizing the stored sample recovers v
\* within one quantization step (maxD - minD)/scale.
C15_RoundTrip ==
    (qpc = "done" /\ InRangeOfField) =>
        LET scale == IF qbits = 16 THEN 65535 ELSE 255
            back == dequantize(sampleOf(outputData), qminD, qmaxD, qbits)
        IN  RLeq(RMul(R(scale), RAbs(RSub(back, qv))), RSub(qmaxD, qminD))
\* a non-negative sample inside the range, 8 bits, recovered above itself
C15_Witness ==
    /\ qpc = "done" /\ qbits = 8 /\ RLeq(R(0), qv) /\ InRangeOfField
    /\ RLess(qv, dequantize(sampleOf(outputData), qminD, qmaxD, qbits))

---------------------------------------------------------------------------
(* calculateGridSize.                                                      *)

\* a plausible slip: the whole difference taken for the border
borderOf_whole(gridSize, meshSize) == Sub(gridSize, meshSize)
\* diff := vec.Scale(vec.Sub(gridSize, meshSize), 0.5)
borderOf(gridSize, meshSize) == Scale(Sub(gridSize, meshSize), Rat(1, 2))

\* the axis of the branch taken: the first whose size equals biggestSide,
\* Z when neither X nor Y does
biggestAxis(meshSize) ==
    LET biggestSide == Max3(meshSize[1], meshSize[2], meshSize[3])
    IN  IF biggestSide = meshSize[1] THEN 1
        ELSE IF biggestSide = meshSize[2] THEN 2 ELSE 3

\* [w, h, d, gridMin, gridMax] of calculateGridSize
calculateGridSize(mMin, mMax, res) ==
    LET meshSize == Sub(mMax, mMin)
        biggestSide == Max3(meshSize[1], meshSize[2], meshSize[3])
        density == RDiv(R(res), biggestSide)
        iDensity == RDiv(biggestSide, R(res))
        bigGridSize == RDiv(RMul(biggestSide, R(res - 1)), R(res - 2))
        texel == RSub(bigGridSize, biggestSide)
        k == biggestAxis(meshSize)
        dim == [i \in 1..3 |->
                  IF i = k THEN res
                  ELSE RCeil(RMul(RAdd(meshSize[i], texel), density))]
        gridSize == [i \in 1..3 |->
                       IF i = k THEN bigGridSize ELSE RMul(R(dim[i]), iDensity)]
        diff == borderOf(gridSize, meshSize)
    IN  [dim |-> <<dim[1], dim[2], dim[3]>>,
         gridMin |-> Sub(mMin, diff), gridMax |-> Add(mMax, diff)]

MaxExtent == 3
MaxRes == 6
\* the test's resolution, and the small ones from 3 up
Resolutions == 3..MaxRes \cup {32}
\* boxes with a positive longest side
MeshSizes ==
    { sz \in (0..MaxExtent) \X (0..MaxExtent) \X (0..MaxExtent) :
         sz[1] + sz[2] + sz[3] > 0 }
MeshCorners == { <<0, 0, 0>>, <<-1, 2, 0>> }

SizeArgs ==
    /\ spc = "idle"
    /\ \E corner \in MeshCorners, sz \in MeshSizes, res \in Resolutions :
          /\ meshMin' = RVec(corner)
          /\ meshMax' = RVec(<<corner[1] + sz[1], corner[2] + sz[2], corner[3] + sz[3]>>)
          /\ resolution' = res
    /\ spc' = "args"
    /\ UNCHANGED <<gridVars, loadVars, distVars, windVars, calcVars, quantVars, fixVars>>

SizeEval ==
    /\ spc = "args"
    /\ \E g \in {calculateGridSize(meshMin, meshMax, resolution)} :
          dims' = g.dim /\ gridMin' = g.gridMin /\ gridMax' = g.gridMax
    /\ spc' = "done"
    /\ UNCHANGED <<gpc, gmesh, triangleLists, cell, layer, visitedTriangles,
                   foundTriangles, minDistance, result>>
    /\ UNCHANGED <<meshMin, meshMax, resolution>>
    /\ UNCHANGED <<loadVars, distVars, windVars, calcVars, quantVars, fixVars>>

InitSize == LoadIdle /\ DistIdle /\ GridIdle /\ MoreIdle
NextSize == SizeArgs \/ SizeEval
SpecSize == InitSize /\ [][NextSize]_vars

\* the sizes of the mesh box, an axis on which it is longest, and the cell
\* size of calculate on an axis
MeshExtent(i) == RSub(meshMax[i], meshMin[i])
IsLongest(k) == \A i \in 1..3 : RLeq(MeshExtent(i), MeshExtent(k))
PositiveExtent == \A i \in 1..3 : RLess(R(0), MeshExtent(i))
CellSizeOf(i) == RDiv(RSub(gridMax[i], gridMin[i]), R(dims[i] - 1))

\* C18: for a mesh box of positive extent and a resolution >= 3, the
\* dimension of the longest mesh axis is the requested resolution and no
\* returned dimension exceeds it.
C18_ResolutionIsBiggestSide ==
    (spc = "done" /\ PositiveExtent /\ resolution >= 3) =>
        /\ \E k \in 1..3 : IsLongest(k) /\ dims[k] = resolution
        /\ \A i \in 1..3 : dims[i] <= resolution

\* C19: the cell sizes (gridMax[i] - gridMin[i]) / (dim[i] - 1) are equal
\* on the three axes.
C19_CubicTexels ==
    spc = "done" => (CellSizeOf(1) = CellSizeOf(2) /\ CellSizeOf(2) = CellSizeOf(3))

\* C20: the grid box encloses the mesh box on every axis, is centred on it,
\* and on the longest axis leaves half a texel on each side of the mesh.
C20_GridEnclosesMesh ==
    spc = "done" =>
        /\ \A i \in 1..3 :
              /\ RLeq(gridMin[i], meshMin[i]) /\ RLeq(meshMax[i], gridMax[i])
              /\ RAdd(gridMin[i], gridMax[i]) = RAdd(meshMin[i], meshMax[i])
        /\ LET k == biggestAxis(Sub(meshMax, meshMin))
               half == RMul(Rat(1, 2), CellSizeOf(k))
           IN  /\ IsLongest(k)
               /\ RSub(meshMin[k], gridMin[k]) = half
               /\ RSub(gridMax[k], meshMax[k]) = half
\* TestCalculateGridSize: the box (0,0,0)..(2,3,1) at resolution 32, longest
\* on Y
C20_Witness ==
    /\ spc = "done" /\ resolution = 32
    /\ meshMin = RVec(<<0, 0, 0>>) /\ meshMax = RVec(<<2, 3, 1>>)
    /\ dims[2] = 32 /\ RLess(gridMin[2], meshMin[2])


=============================================================================
